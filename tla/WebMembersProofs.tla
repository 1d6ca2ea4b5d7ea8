--------------------------- MODULE WebMembersProofs ---------------------------
(***************************************************************************)
(* Proofs about the parts of the publisher and of its relay (WebMembers;   *)
(* the definitions of each carry its prefix).  Each section has the        *)
(* inductive invariant of one part and a lemma per group of its steps;     *)
(* MembersProofs draws the theorems from them.                             *)
(***************************************************************************)
EXTENDS WebMembers, FiniteSetTheorems, WellFoundedInduction, TLAPS

\* The least member of a set of numbers.
LEMMA LeastNumber ==
    ASSUME NEW T \in SUBSET Nat, T # {}
    PROVE  \E m \in T : \A n \in T : m <= n
<1> DEFINE R == {ss \in Nat \X Nat : ss[1] < ss[2]}
<1>1. IsWellFoundedOn(R, Nat)
    BY NatLessThanWellFounded DEF OpToRel
<1> HIDE DEF R
<1>2. PICK m \in T : \A n \in T : ~ (<<n, m>> \in R)
    BY <1>1, WFMin
<1>3. \A n \in T : ~ (n < m)
    BY <1>2 DEF R
<1> QED BY <1>2, <1>3

----------------------------------------------------------------------------
(* What is counted.                                                        *)

\* Pieces of things: the k-th of the thing i, for k up to c[i].
Pieces(D, c) == UNION {{i} \X (1 .. c[i]) : i \in D}

\* Finitely many things have finitely many pieces.
LEMMA PiecesFinite ==
    ASSUME NEW D, IsFiniteSet(D), NEW c, \A i \in D : c[i] \in Nat
    PROVE  IsFiniteSet(Pieces(D, c))
<1> DEFINE f == [i \in D |-> {i} \X (1 .. c[i])]
           T == {{i} \X (1 .. c[i]) : i \in D}
<1>1. IsFiniteSet(T)
  <2>1. f \in Surjection(D, T)
    BY DEF Surjection
  <2> QED
    BY <2>1, FS_Surjection
<1>2. ASSUME NEW t \in T PROVE IsFiniteSet(t)
  <2>1. PICK i \in D : t = {i} \X (1 .. c[i])
    OBVIOUS
  <2>2. IsFiniteSet({i})
    BY FS_Singleton
  <2>3. IsFiniteSet(1 .. c[i])
    <3>1. c[i] \in Int /\ 1 \in Int
      OBVIOUS
    <3> QED
      BY <3>1, FS_Interval
  <2> QED
    BY <2>1, <2>2, <2>3, FS_Product
<1>3. IsFiniteSet(UNION T)
  <2> HIDE DEF T
  <2> QED
    BY <1>1, <1>2, FS_UNION
<1> QED
  BY <1>3 DEF Pieces

\* The place of i in the order of S, a set of numbers.
Rank(S, i) == Cardinality({j \in S : j <= i})

\* Places are taken in order, and each by one.
LEMMA Ranks ==
    ASSUME NEW S \in SUBSET Nat, IsFiniteSet(S)
    PROVE  /\ Cardinality(S) \in Nat
           /\ \A i \in S : Rank(S, i) \in 1 .. Cardinality(S)
           /\ \A i, j \in S : i < j => Rank(S, i) < Rank(S, j)
           /\ \A k \in 1 .. Cardinality(S) : \E i \in S : Rank(S, i) = k
<1> DEFINE upto(i) == {j \in S : j <= i}
           n == Cardinality(S)
<1>1. n \in Nat
  BY FS_CardinalityType
<1>2. ASSUME NEW i \in S
      PROVE  IsFiniteSet(upto(i)) /\ Cardinality(upto(i)) \in 1 .. n
  <2>1. IsFiniteSet(upto(i)) /\ Cardinality(upto(i)) <= n
    BY FS_Subset
  <2>2. Cardinality(upto(i)) \in Nat
    BY <2>1, FS_CardinalityType
  <2>3. Cardinality(upto(i)) # 0
    <3>1. i \in upto(i)
      OBVIOUS
    <3> HIDE DEF upto
    <3> QED
      BY <2>1, <3>1, FS_EmptySet
  <2> HIDE DEF upto, n
  <2> QED
    BY <1>1, <2>1, <2>2, <2>3
<1>3. ASSUME NEW i \in S, NEW j \in S, i < j
      PROVE  Cardinality(upto(i)) < Cardinality(upto(j))
  <2>1. upto(i) \in SUBSET upto(j) /\ j \in upto(j) /\ j \notin upto(i)
    <3>1. \A m \in S : m \in Nat
      OBVIOUS
    <3>2. ASSUME NEW m \in S, m <= i PROVE m <= j
      BY <1>3, <3>1, <3>2
    <3>3. j <= j /\ ~(j <= i)
      BY <1>3, <3>1
    <3> QED
      BY <3>2, <3>3
  <2>2. /\ IsFiniteSet(upto(j))
        /\ Cardinality(upto(i)) \in Nat /\ Cardinality(upto(j)) \in Nat
    BY <1>2
  <2> HIDE DEF upto
  <2>3. /\ Cardinality(upto(i)) <= Cardinality(upto(j))
        /\ Cardinality(upto(j)) = Cardinality(upto(i)) => upto(j) = upto(i)
    BY <2>1, <2>2, FS_Subset
  <2> QED
    BY <2>1, <2>2, <2>3
<1>4. ASSUME NEW k \in 1 .. n, \A i \in S : Cardinality(upto(i)) # k
      PROVE  FALSE
  <2> DEFINE T == (1 .. n) \ {k}
             f == [i \in S |-> Cardinality(upto(i))]
  <2>1. IsFiniteSet(T) /\ Cardinality(T) < n
    <3>1. IsFiniteSet(1 .. n) /\ Cardinality(1 .. n) = n
      BY <1>1, FS_Interval
    <3>2. k \in 1 .. n
      BY <1>4
    <3> HIDE DEF n
    <3>3. /\ IsFiniteSet((1 .. n) \ {k})
          /\ Cardinality((1 .. n) \ {k}) = IF k \in 1 .. n THEN Cardinality(1 .. n) - 1
                                           ELSE Cardinality(1 .. n)
      BY <3>1, FS_RemoveElement, Zenon
    <3> QED
      BY <1>1, <3>1, <3>2, <3>3
  <2>2. \A i \in S : Cardinality(upto(i)) \in T
    BY <1>2, <1>4
  <2> HIDE DEF upto, T
  <2>3. f \in [S -> T] /\ \A i \in S : f[i] = Cardinality(upto(i))
    BY <2>2
  <2>4. ASSUME NEW x \in S, NEW y \in S, f[x] = f[y] PROVE x = y
    <3>1. x \in Nat /\ y \in Nat /\ Cardinality(upto(x)) = Cardinality(upto(y))
      BY <2>3, <2>4
    <3>2. Cardinality(upto(x)) \in Nat
      BY <1>2
    <3>3. ~(x < y) /\ ~(y < x)
      BY <1>3, <3>1, <3>2
    <3> QED
      BY <3>1, <3>3
  <2>5. f \in Injection(S, T)
    <3> HIDE DEF f
    <3> QED
      BY <2>3, <2>4 DEF Injection, IsInjective
  <2>6. n <= Cardinality(T)
    BY <2>1, <2>5, FS_Injection
  <2>7. Cardinality(T) \in Nat
    BY <2>1, FS_CardinalityType
  <2> QED
    BY <1>1, <2>1, <2>6, <2>7
<1> QED
  BY <1>1, <1>2, <1>3, <1>4 DEF Rank

\* The k-th of S.
Nth(S, k) == CHOOSE i \in S : Rank(S, i) = k

LEMMA Nths ==
    ASSUME NEW S \in SUBSET Nat, IsFiniteSet(S)
    PROVE  /\ Cardinality(S) \in Nat
           /\ \A k \in 1 .. Cardinality(S) : Nth(S, k) \in S
           /\ \A k \in 1 .. Cardinality(S) : Rank(S, Nth(S, k)) = k
           /\ \A j, k \in 1 .. Cardinality(S) : j < k => Nth(S, j) < Nth(S, k)
           /\ \A i \in S : Rank(S, i) \in 1 .. Cardinality(S) /\ Nth(S, Rank(S, i)) = i
<1> DEFINE n == Cardinality(S)
<1>1. /\ n \in Nat
      /\ \A i \in S : Rank(S, i) \in 1 .. n
      /\ \A i, j \in S : i < j => Rank(S, i) < Rank(S, j)
      /\ \A k \in 1 .. n : \E i \in S : Rank(S, i) = k
  BY Ranks
<1> HIDE DEF n
<1>2. \A k \in 1 .. n : Nth(S, k) \in S /\ Rank(S, Nth(S, k)) = k
  BY <1>1 DEF Nth
<1>3. ASSUME NEW i \in S, NEW j \in S, Rank(S, i) = Rank(S, j) PROVE i = j
  <2>1. i \in Nat /\ j \in Nat /\ Rank(S, i) \in Nat
    BY <1>1
  <2>2. ~(i < j) /\ ~(j < i)
    BY <1>1, <1>3, <2>1
  <2> QED
    BY <2>1, <2>2
<1>4. ASSUME NEW j \in 1 .. n, NEW k \in 1 .. n, j < k PROVE Nth(S, j) < Nth(S, k)
  <2>1. Nth(S, j) \in Nat /\ Nth(S, k) \in Nat
    BY <1>2
  <2>2. ~(Nth(S, k) < Nth(S, j)) /\ Nth(S, k) # Nth(S, j)
    <3>1. j \in Nat /\ k \in Nat
      BY <1>1
    <3>2. /\ Nth(S, j) \in S /\ Rank(S, Nth(S, j)) = j
          /\ Nth(S, k) \in S /\ Rank(S, Nth(S, k)) = k
      BY <1>2
    <3>3. Nth(S, k) < Nth(S, j) => k < j
      BY <1>1, <3>2
    <3> QED
      BY <1>4, <3>1, <3>2, <3>3
  <2> QED
    BY <2>1, <2>2
<1>5. ASSUME NEW i \in S PROVE Nth(S, Rank(S, i)) = i
  BY <1>1, <1>2, <1>3
<1> QED
  BY <1>1, <1>2, <1>4, <1>5 DEF n

----------------------------------------------------------------------------
(* Provisioning. *)


\* A process is one program or the other, and no secret is one of the marks.
SecretDistinct ==
    /\ Relays \cap Publishers = {}
    /\ {Secret!Missing, Secret!Empty, Nothing} \cap Relays = {}

\* Only relays come to create the file.
OnlyRelays == \A p \in Secret!Procs : at[p] \in {"create", "write", "adopt"} => p \in Relays

\* The file is empty as long as somebody is going to write it, and that is one.
OneWriter ==
    /\ \A p \in Secret!Procs : at[p] = "write" => file = Secret!Empty
    /\ \A p, q \in Secret!Procs : at[p] = "write" /\ at[q] = "write" => p = q

\* Who took its secret from the file, or wrote it there: the file holds one.
SecretKept ==
    /\ \A p \in Relays : origin[p] \in {"state", "generated"} => file \in Relays
    /\ \A p \in Publishers : secret[p] # Nothing => file \in Relays

SecretInv == Secret!TypeOK /\ OnlyRelays /\ OneWriter /\ SecretKept /\ Secret!SecretsAgree

\* What is read from a file with a secret is that secret.
LEMMA ContentIsFile ==
    ASSUME SecretDistinct, Secret!TypeOK
    PROVE  /\ Secret!Content # Nothing <=> file \in Relays
           /\ file \in Relays => Secret!Content = file
           /\ Secret!Content \in Relays \cup {Nothing}
BY DEF SecretDistinct, Secret!TypeOK, Secret!Content, Secret!Missing, Secret!Empty

LEMMA SecretStart ==
    ASSUME SecretDistinct, Secret!Init
    PROVE  SecretInv
BY DEF Secret!Init, SecretInv, Secret!TypeOK, OnlyRelays, OneWriter, SecretKept,
       Secret!SecretsAgree, Secret!Procs

\* A process that leaves the file alone and settles on its content, or on a
\* secret of its own that it does not call kept.
LEMMA SecretSettles ==
    ASSUME SecretDistinct, SecretInv, NEW p \in Secret!Procs,
           NEW s \in Relays \cup {Nothing},
           NEW o \in {"state", "ephemeral"}, Secret!Settle(p, s, o), file' = file,
           writable' = writable,
           p \in Publishers \/ o = "state" => s = Secret!Content,
           p \in Relays /\ o = "state" => Secret!Content # Nothing
    PROVE  SecretInv'
<1> USE DEF SecretInv
<1>1. Secret!TypeOK'
  BY DEF Secret!Settle, Secret!TypeOK, Secret!Procs
<1>2. OnlyRelays' /\ OneWriter'
  BY DEF Secret!Settle, Secret!TypeOK, OnlyRelays, OneWriter
<1>3. ASSUME NEW r \in Relays, origin'[r] \in {"state", "generated"}
      PROVE  file \in Relays /\ secret'[r] = file
  <2>1. CASE r = p
    BY <1>3, <2>1, ContentIsFile DEF Secret!Settle, Secret!TypeOK, Secret!Procs
  <2>2. CASE r # p
    BY <1>3, <2>2 DEF Secret!Settle, Secret!TypeOK, SecretKept, Secret!SecretsAgree,
                      Secret!Procs
  <2> QED
    BY <2>1, <2>2
<1>4. ASSUME NEW r \in Publishers, secret'[r] # Nothing
      PROVE  file \in Relays /\ secret'[r] = file
  <2>1. CASE r = p
    BY <1>4, <2>1, ContentIsFile DEF Secret!Settle, Secret!TypeOK, Secret!Procs
  <2>2. CASE r # p
    BY <1>4, <2>2 DEF Secret!Settle, Secret!TypeOK, SecretKept, Secret!SecretsAgree,
                      Secret!Procs
  <2> QED
    BY <2>1, <2>2
<1> QED
  BY <1>1, <1>2, <1>3, <1>4 DEF SecretKept, Secret!SecretsAgree

\* One step of one process.
LEMMA SecretStep ==
    ASSUME SecretDistinct, SecretInv, [Secret!Next]_(Secret!vars)
    PROVE  SecretInv'
<1> USE DEF SecretInv
<1>1. CASE UNCHANGED Secret!vars
  BY <1>1 DEF Secret!vars, Secret!TypeOK, OnlyRelays, OneWriter, SecretKept,
              Secret!SecretsAgree
<1>2. ASSUME NEW p \in Secret!Procs, Secret!LookUp(p)
      PROVE  SecretInv'
  <2>1. CASE Secret!Content # Nothing
    BY <1>2, <2>1, ContentIsFile, SecretSettles, Zenon DEF Secret!LookUp
  <2>2. CASE Secret!Content = Nothing
    <3>1. /\ p \in Relays /\ at' = [at EXCEPT ![p] = "create"]
          /\ UNCHANGED <<file, writable, secret, origin>>
      BY <1>2, <2>2 DEF Secret!LookUp
    <3> QED
      BY <3>1 DEF Secret!TypeOK, OnlyRelays, OneWriter, SecretKept, Secret!SecretsAgree
  <2> QED
    BY <2>1, <2>2
<1>3. ASSUME NEW p \in Secret!Procs, Secret!Create(p)
      PROVE  SecretInv'
  <2>0. p \in Relays
    BY <1>3 DEF Secret!Create, OnlyRelays
  <2>1. CASE ~writable
    <3>1. Secret!Settle(p, p, "ephemeral") /\ file' = file /\ writable' = writable
      BY <1>3, <2>1 DEF Secret!Create
    <3>2. p \notin Publishers
      BY <2>0 DEF SecretDistinct
    <3> QED
      BY <2>0, <3>1, <3>2, SecretSettles
  <2>2. CASE writable /\ file = Secret!Missing
    <3>1. /\ file' = Secret!Empty /\ at' = [at EXCEPT ![p] = "write"]
          /\ UNCHANGED <<secret, origin, writable>>
      BY <1>3, <2>2 DEF Secret!Create
    <3>2. \A q \in Secret!Procs : at[q] # "write"
      BY <2>2 DEF OneWriter, Secret!Missing, Secret!Empty
    <3>3. file \notin Relays
      BY <2>2 DEF SecretDistinct
    <3>4. Secret!TypeOK' /\ OnlyRelays' /\ OneWriter'
      BY <2>0, <3>1, <3>2 DEF Secret!TypeOK, OnlyRelays, OneWriter
    <3> QED
      BY <3>1, <3>3, <3>4 DEF SecretKept, Secret!SecretsAgree
  <2>3. CASE writable /\ file # Secret!Missing
    <3>1. at' = [at EXCEPT ![p] = "adopt"] /\ UNCHANGED <<file, secret, origin, writable>>
      BY <1>3, <2>3 DEF Secret!Create
    <3> QED
      BY <2>0, <3>1 DEF Secret!TypeOK, OnlyRelays, OneWriter, SecretKept,
                        Secret!SecretsAgree
  <2> QED
    BY <2>1, <2>2, <2>3
<1>4. ASSUME NEW p \in Secret!Procs, Secret!Write(p)
      PROVE  SecretInv'
  <2>0. p \in Relays /\ p \notin Publishers /\ file = Secret!Empty /\ file \notin Relays
    BY <1>4 DEF Secret!Write, OnlyRelays, OneWriter, SecretDistinct
  <2>1. CASE file' = p /\ Secret!Settle(p, p, "generated")
    <3>1. /\ secret' = [secret EXCEPT ![p] = p]
          /\ origin' = [origin EXCEPT ![p] = "generated"]
          /\ at' = [at EXCEPT ![p] = "done"] /\ file' = p /\ writable' = writable
      BY <1>4, <2>0, <2>1 DEF Secret!Settle, Secret!Write
    <3>2. Secret!TypeOK' /\ OnlyRelays' /\ OneWriter'
      BY <1>4, <2>0, <3>1 DEF Secret!TypeOK, OnlyRelays, OneWriter, Secret!Procs,
                              Secret!Write
    <3> QED
      BY <2>0, <3>1, <3>2 DEF Secret!TypeOK, SecretKept, Secret!SecretsAgree, Secret!Procs
  <2>2. CASE file' = file /\ Secret!Settle(p, p, "ephemeral")
    BY <1>4, <2>0, <2>2, SecretSettles DEF Secret!Write
  <2> QED
    BY <1>4, <2>1, <2>2 DEF Secret!Write
<1>5. ASSUME NEW p \in Secret!Procs, Secret!Adopt(p)
      PROVE  SecretInv'
  <2>0. p \in Relays /\ p \notin Publishers
    BY <1>5 DEF Secret!Adopt, OnlyRelays, SecretDistinct
  <2> QED
    BY <1>5, <2>0, ContentIsFile, SecretSettles DEF Secret!Adopt
<1>6. ASSUME NEW p \in Secret!Procs, Secret!Load(p)
      PROVE  SecretInv'
  <2>0. p \in Publishers /\ p \notin Relays
    BY <1>6 DEF Secret!Load, SecretDistinct
  <2> QED
    BY <1>6, <2>0, ContentIsFile, SecretSettles DEF Secret!Load
<1>7. ASSUME NEW p \in Secret!Procs, Secret!Die(p)
      PROVE  SecretInv'
  <2>1. /\ at' = [at EXCEPT ![p] = "dead"] /\ secret' = [secret EXCEPT ![p] = Nothing]
        /\ origin' = IF p \in Relays THEN [origin EXCEPT ![p] = "none"] ELSE origin
        /\ UNCHANGED <<file, writable>>
    BY <1>7 DEF Secret!Die
  <2>2. Secret!TypeOK' /\ OnlyRelays' /\ OneWriter'
    BY <2>1 DEF Secret!TypeOK, OnlyRelays, OneWriter
  <2>3. \A r \in Relays : origin'[r] \in {"state", "generated"} =>
            origin[r] = origin'[r] /\ secret'[r] = secret[r]
    BY <2>1 DEF Secret!TypeOK, Secret!Procs
  <2>4. \A r \in Publishers : secret'[r] # Nothing => secret'[r] = secret[r]
    BY <2>1 DEF Secret!TypeOK, Secret!Procs
  <2> QED
    BY <2>1, <2>2, <2>3, <2>4 DEF SecretKept, Secret!SecretsAgree
<1>8. ASSUME NEW p \in Secret!Procs, Secret!Restart(p)
      PROVE  SecretInv'
  BY <1>8 DEF Secret!Restart, Secret!TypeOK, OnlyRelays, OneWriter, SecretKept,
              Secret!SecretsAgree
<1> QED
  BY <1>1, <1>2, <1>3, <1>4, <1>5, <1>6, <1>7, <1>8 DEF Secret!Next

----------------------------------------------------------------------------
(* RelayLimits.                                                             *)

\* The limits are numbers, a wrong PIN counts, and a lock lasts.
LimitNumbers ==
    /\ LIMIT \in Nat /\ WINDOW \in Nat /\ PIN_WINDOW \in Nat
    /\ PIN_FAILS \in Nat \ {0} /\ PIN_LOCKOUT \in Nat \ {0}

LimitClocks ==
    /\ now \in Nat
    /\ hits \in [Sources -> Seq(Nat)] /\ fails \in [Sources -> Seq(Nat)]
    /\ granted \in [Sources -> Seq(Nat)] /\ until \in [Sources -> Nat]

\* What the table has forgotten of a source, its first d connections, is older
\* than the window; the rest it has.
Forgot(q, g, d) ==
    /\ d <= Len(g) /\ Len(q) = Len(g) - d
    /\ \A n \in DOMAIN q : q[n] = g[n + d]
    /\ \A n \in 1 .. d : g[n] + WINDOW < now

Remembered == \A k \in Sources : \E d \in Nat : Forgot(hits[k], granted[k], d)

LimitInv == LimitClocks /\ Remembered /\ Limit!RatesBounded /\ Limit!LockFollowsFails

\* What falls off the front of a deque: the old times before the first recent.
LEMMA FallsOff ==
    ASSUME NEW q \in Seq(Nat), NEW window \in Nat, now \in Nat
    PROVE  \E m \in 0 .. Len(q) :
               /\ Limit!Recent(q, window) \in Seq(Nat)
               /\ Len(Limit!Recent(q, window)) = Len(q) - m
               /\ \A n \in 1 .. Len(q) - m : Limit!Recent(q, window)[n] = q[n + m]
               /\ \A n \in 1 .. m : q[n] + window < now
<1> DEFINE First(n) == /\ \A i \in 1 .. n - 1 : q[i] + window < now
                       /\ n <= Len(q) => q[n] + window >= now
           young == {n \in 1 .. Len(q) + 1 : n <= Len(q) => q[n] + window >= now}
           p == CHOOSE n \in 1 .. Len(q) + 1 : First(n)
<1>1. DOMAIN q = 1 .. Len(q) /\ Len(q) \in Nat
    OBVIOUS
<1>2. young \in SUBSET Nat /\ Len(q) + 1 \in young
    BY <1>1
<1>3. PICK l \in young : \A n \in young : l <= n
    <2> HIDE DEF young
    <2> QED BY <1>2, LeastNumber
<1>4. l \in 1 .. Len(q) + 1 /\ First(l)
    <2>1. l \in 1 .. Len(q) + 1 /\ (l <= Len(q) => q[l] + window >= now)
        OBVIOUS
    <2>2. ASSUME NEW i \in 1 .. l - 1
          PROVE  q[i] + window < now
        <3>1. i \in 1 .. Len(q) + 1 /\ i <= Len(q) /\ i < l
            BY <1>1, <2>1
        <3>2. ~ (q[i] + window >= now)
            BY <1>3, <3>1
        <3>3. q[i] \in Nat
            BY <1>1, <3>1
        <3> QED BY <3>2, <3>3
    <2> QED BY <2>1, <2>2
<1>5. p \in 1 .. Len(q) + 1 /\ First(p)
    <2> HIDE DEF First
    <2> QED BY <1>4
<1>6. Limit!Recent(q, window) = SubSeq(q, p, Len(q))
    BY DEF Limit!Recent
<1>7. \A n \in 1 .. p - 1 : q[n] + window < now
    <2> HIDE DEF p
    <2> QED BY <1>5
<1>8. p - 1 \in 0 .. Len(q) /\ p \in Nat
    <2> HIDE DEF p, First
    <2> QED BY <1>1, <1>5
<1> HIDE DEF p, First, young
<1>9. /\ Limit!Recent(q, window) \in Seq(Nat)
      /\ Len(Limit!Recent(q, window)) = Len(q) - (p - 1)
      /\ \A n \in 1 .. Len(q) - (p - 1) : Limit!Recent(q, window)[n] = q[n + (p - 1)]
    BY <1>6, <1>8
<1> QED BY <1>7, <1>8, <1>9

\* Forgetting more, in a sweep or at a connection, forgets what is old.
LEMMA ForgetsOld ==
    ASSUME NEW q \in Seq(Nat), NEW g \in Seq(Nat), NEW d \in Nat, Forgot(q, g, d),
           now \in Nat, WINDOW \in Nat
    PROVE  /\ Limit!Recent(q, WINDOW) \in Seq(Nat)
           /\ \E e \in Nat : Forgot(Limit!Recent(q, WINDOW), g, e)
<1>1. PICK m \in 0 .. Len(q) :
          /\ Limit!Recent(q, WINDOW) \in Seq(Nat)
          /\ Len(Limit!Recent(q, WINDOW)) = Len(q) - m
          /\ \A n \in 1 .. Len(q) - m : Limit!Recent(q, WINDOW)[n] = q[n + m]
          /\ \A n \in 1 .. m : q[n] + WINDOW < now
    BY FallsOff
<1>2. /\ d + m \in Nat /\ Len(q) \in Nat /\ Len(g) \in Nat /\ DOMAIN q = 1 .. Len(q)
      /\ Len(q) = Len(g) - d
    BY DEF Forgot
<1>3. DOMAIN Limit!Recent(q, WINDOW) = 1 .. Len(q) - m
    BY <1>1
<1>4. \A n \in DOMAIN Limit!Recent(q, WINDOW) : Limit!Recent(q, WINDOW)[n] = g[n + (d + m)]
    <2> SUFFICES ASSUME NEW n \in 1 .. Len(q) - m
                 PROVE  Limit!Recent(q, WINDOW)[n] = g[n + (d + m)]
        BY <1>3
    <2>1. n + m \in DOMAIN q /\ (n + m) + d = n + (d + m)
        BY <1>2
    <2>2. q[n + m] = g[(n + m) + d]
        BY <2>1 DEF Forgot
    <2> QED BY <1>1, <2>1, <2>2
<1>5. \A n \in 1 .. d + m : g[n] + WINDOW < now
    <2> SUFFICES ASSUME NEW n \in 1 .. d + m
                 PROVE  g[n] + WINDOW < now
        OBVIOUS
    <2>1. CASE n <= d
        BY <2>1 DEF Forgot
    <2>2. CASE n > d
        <3>1. n - d \in 1 .. m /\ n - d \in DOMAIN q /\ (n - d) + d = n
            BY <1>2, <2>2
        <3>2. q[n - d] = g[(n - d) + d]
            BY <3>1 DEF Forgot
        <3> QED BY <1>1, <3>1, <3>2
    <2> QED BY <2>1, <2>2
<1>6. d + m <= Len(g) /\ Len(Limit!Recent(q, WINDOW)) = Len(g) - (d + m)
    BY <1>1, <1>2
<1> HIDE DEF Limit!Recent
<1>7. Forgot(Limit!Recent(q, WINDOW), g, d + m)
    BY <1>4, <1>5, <1>6 DEF Forgot
<1> QED BY <1>1, <1>2, <1>7

LEMMA LastOrBefore ==
    ASSUME NEW m \in Nat, NEW n \in 1 .. m + 1
    PROVE  n \in 1 .. m \/ n = m + 1
OBVIOUS

\* A connection granted now is remembered.
LEMMA Remembers ==
    ASSUME NEW q \in Seq(Nat), NEW g \in Seq(Nat), NEW d \in Nat, Forgot(q, g, d),
           now \in Nat
    PROVE  Forgot(Append(q, now), Append(g, now), d)
<1>1. /\ Len(q) \in Nat /\ Len(g) \in Nat /\ DOMAIN q = 1 .. Len(q)
      /\ Len(q) = Len(g) - d /\ d <= Len(g)
    BY DEF Forgot
<1>2. /\ Len(Append(q, now)) = Len(q) + 1 /\ Len(Append(g, now)) = Len(g) + 1
      /\ DOMAIN Append(q, now) = 1 .. Len(q) + 1
      /\ \A n \in 1 .. Len(q) : Append(q, now)[n] = q[n]
      /\ \A n \in 1 .. Len(g) : Append(g, now)[n] = g[n]
      /\ Append(q, now)[Len(q) + 1] = now /\ Append(g, now)[Len(g) + 1] = now
    OBVIOUS
<1>3. \A n \in 1 .. Len(q) + 1 : Append(q, now)[n] = Append(g, now)[n + d]
    <2> SUFFICES ASSUME NEW n \in 1 .. Len(q) + 1
                 PROVE  Append(q, now)[n] = Append(g, now)[n + d]
        OBVIOUS
    <2>1. CASE n = Len(q) + 1
        <3>1. n + d = Len(g) + 1
            BY <1>1, <2>1
        <3> QED BY <1>2, <2>1, <3>1
    <2>2. CASE n # Len(q) + 1
        <3>0. n \in 1 .. Len(q) /\ n \in DOMAIN q
            BY <1>1, <2>2, LastOrBefore
        <3>1. n + d \in 1 .. Len(g)
            BY <1>1, <3>0
        <3>2. q[n] = g[n + d]
            BY <3>0 DEF Forgot
        <3> QED BY <1>2, <3>0, <3>1, <3>2
    <2> QED BY <2>1, <2>2
<1>4. \A n \in 1 .. d : Append(g, now)[n] + WINDOW < now
    <2> SUFFICES ASSUME NEW n \in 1 .. d
                 PROVE  Append(g, now)[n] + WINDOW < now
        OBVIOUS
    <2>1. n \in 1 .. Len(g)
        BY <1>1
    <2>2. g[n] + WINDOW < now
        BY DEF Forgot
    <2> QED BY <1>2, <2>1, <2>2
<1>5. d <= Len(g) + 1 /\ Len(q) + 1 = Len(g) + 1 - d
    BY <1>1
<1>6. /\ d <= Len(Append(g, now))
      /\ Len(Append(q, now)) = Len(Append(g, now)) - d
    BY <1>1, <1>2, <1>5
<1> QED BY <1>2, <1>3, <1>4, <1>6 DEF Forgot

\* A source with room in its window is not granted one too many.
LEMMA GrantsSpaced ==
    ASSUME NEW q \in Seq(Nat), NEW g \in Seq(Nat), NEW d \in Nat, Forgot(q, g, d),
           now \in Nat, LIMIT \in Nat, WINDOW \in Nat, Len(q) < LIMIT,
           \A i, j \in DOMAIN g : j >= i + LIMIT => g[j] > g[i] + WINDOW
    PROVE  \A i, j \in DOMAIN Append(g, now) :
               j >= i + LIMIT => Append(g, now)[j] > Append(g, now)[i] + WINDOW
<1>1. /\ Len(q) \in Nat /\ Len(g) \in Nat /\ DOMAIN g = 1 .. Len(g)
      /\ Len(q) = Len(g) - d /\ d <= Len(g)
    BY DEF Forgot
<1>2. /\ DOMAIN Append(g, now) = 1 .. Len(g) + 1
      /\ \A n \in 1 .. Len(g) : Append(g, now)[n] = g[n]
      /\ Append(g, now)[Len(g) + 1] = now
      /\ \A n \in 1 .. Len(g) : g[n] \in Nat
    OBVIOUS
<1> SUFFICES ASSUME NEW i \in 1 .. Len(g) + 1, NEW j \in 1 .. Len(g) + 1,
                    j >= i + LIMIT
             PROVE  Append(g, now)[j] > Append(g, now)[i] + WINDOW
    BY <1>2
<1>3. CASE j \in 1 .. Len(g)
    <2>1. i \in 1 .. Len(g)
        BY <1>3
    <2>2. g[j] > g[i] + WINDOW
        BY <1>1, <1>3, <2>1
    <2> QED BY <1>2, <1>3, <2>1, <2>2
<1>4. CASE j = Len(g) + 1
    <2>1. i \in 1 .. d /\ i \in 1 .. Len(g)
        BY <1>1, <1>4
    <2>2. g[i] + WINDOW < now
        BY <2>1 DEF Forgot
    <2> QED BY <1>2, <1>4, <2>1, <2>2
<1>5. j \in 1 .. Len(g) \/ j = Len(g) + 1
    BY <1>1, LastOrBefore
<1> QED BY <1>3, <1>4, <1>5

LEMMA LimitStart ==
    ASSUME LimitNumbers, Limit!Init
    PROVE  LimitInv
<1>1. <<>> \in Seq(Nat) /\ Len(<<>>) = 0 /\ DOMAIN <<>> = {}
    OBVIOUS
<1>2. LimitClocks
    BY <1>1 DEF Limit!Init, LimitClocks
<1>3. Forgot(<<>>, <<>>, 0)
    BY <1>1 DEF Forgot
<1>4. Remembered
    BY <1>3 DEF Limit!Init, Remembered
<1>5. Limit!RatesBounded
    BY <1>1 DEF Limit!Init, Limit!RatesBounded
<1>6. Limit!LockFollowsFails
    BY <1>1 DEF Limit!Init, Limit!LockFollowsFails, LimitNumbers
<1> QED BY <1>2, <1>4, <1>5, <1>6 DEF LimitInv

\* A step that grants nothing and forgets nothing of the window.
LEMMA WindowRests ==
    ASSUME LimitNumbers, LimitInv, hits' = hits, granted' = granted, now' \in Nat,
           now' >= now
    PROVE  Remembered' /\ Limit!RatesBounded'
<1>1. Limit!RatesBounded'
    BY DEF LimitInv, Limit!RatesBounded
<1>2. Remembered'
    <2> SUFFICES ASSUME NEW k \in Sources
                 PROVE  \E d \in Nat : Forgot(hits[k], granted[k], d)'
        BY DEF Remembered
    <2>1. PICK d \in Nat : Forgot(hits[k], granted[k], d)
        BY DEF LimitInv, Remembered
    <2>2. granted[k] \in Seq(Nat) /\ now \in Nat
        BY DEF LimitInv, LimitClocks
    <2>3. \A n \in 1 .. d : granted[k][n] + WINDOW < now'
        <3> SUFFICES ASSUME NEW n \in 1 .. d
                     PROVE  granted[k][n] + WINDOW < now'
            OBVIOUS
        <3>1. granted[k][n] + WINDOW < now /\ n \in 1 .. Len(granted[k])
            BY <2>1, <2>2 DEF Forgot
        <3>2. granted[k][n] \in Nat
            BY <2>2, <3>1
        <3> QED BY <2>2, <3>1, <3>2 DEF LimitNumbers
    <2> QED BY <2>1, <2>3 DEF Forgot
<1> QED BY <1>1, <1>2

LEMMA LimitConnects ==
    ASSUME LimitNumbers, LimitInv, NEW k \in Sources, Limit!Connect(k)
    PROVE  LimitInv'
<1>1. /\ now \in Nat /\ now' = now /\ hits \in [Sources -> Seq(Nat)]
      /\ fails \in [Sources -> Seq(Nat)] /\ granted \in [Sources -> Seq(Nat)]
      /\ until \in [Sources -> Nat] /\ WINDOW \in Nat /\ LIMIT \in Nat
    BY DEF LimitInv, LimitClocks, Limit!Connect, LimitNumbers
<1> DEFINE old == Limit!Recent(hits[k], WINDOW)
<1>2. PICK b \in Nat : Forgot(hits[k], granted[k], b)
    BY DEF LimitInv, Remembered
<1>3. PICK d \in Nat : old \in Seq(Nat) /\ Forgot(old, granted[k], d)
    BY <1>1, <1>2, ForgetsOld
<1>4. \A s \in Sources : s # k => hits'[s] = hits[s]
    BY <1>1 DEF Limit!Connect, Limit!Hit
<1>5. CASE Limit!Allows(k)
    <2>1. /\ hits' = [hits EXCEPT ![k] = Append(old, now)]
          /\ granted' = [granted EXCEPT ![k] = Append(@, now)]
          /\ until' = [until EXCEPT ![k] = IF Limit!Locked(k) THEN @ ELSE 0]
          /\ fails' = [fails EXCEPT ![k] = IF ~Limit!Locked(k)
               /\ until[k] > 0 THEN <<>> ELSE @]
          /\ Len(old) < LIMIT
        BY <1>5 DEF Limit!Connect, Limit!Hit, Limit!Allows
    <2> HIDE DEF old
    <2>2. Append(old, now) \in Seq(Nat) /\ Append(granted[k], now) \in Seq(Nat)
              /\ granted[k] \in Seq(Nat) /\ <<>> \in Seq(Nat)
        BY <1>1, <1>3
    <2>3. LimitClocks'
        BY <1>1, <2>1, <2>2 DEF LimitClocks
    <2>4. Remembered'
        <3> SUFFICES ASSUME NEW s \in Sources
                     PROVE  \E e \in Nat : Forgot(hits[s], granted[s], e)'
            BY DEF Remembered
        <3>1. CASE s = k
            <4>1. Forgot(Append(old, now), Append(granted[k], now), d)
                BY <1>1, <1>3, <2>2, Remembers
            <4>2. hits'[s] = Append(old, now) /\ granted'[s] = Append(granted[k], now)
                BY <1>1, <2>1, <3>1
            <4>3. Forgot(hits'[s], granted'[s], d)
                BY <4>1, <4>2
            <4> QED BY <1>1, <4>3 DEF Forgot
        <3>2. CASE s # k
            <4>1. PICK e \in Nat : Forgot(hits[s], granted[s], e)
                BY DEF LimitInv, Remembered
            <4>2. hits'[s] = hits[s] /\ granted'[s] = granted[s]
                BY <1>1, <2>1, <3>2
            <4> QED BY <1>1, <4>1, <4>2 DEF Forgot
        <3> QED BY <3>1, <3>2
    <2>5. Limit!RatesBounded'
        <3>1. \A i, j \in DOMAIN granted[k] :
                  j >= i + LIMIT => granted[k][j] > granted[k][i] + WINDOW
            BY DEF LimitInv, Limit!RatesBounded
        <3>2. \A i, j \in DOMAIN Append(granted[k], now) :
                  j >= i + LIMIT => Append(granted[k], now)[j]
                                        > Append(granted[k], now)[i] + WINDOW
            BY <1>1, <1>3, <2>1, <2>2, <3>1, GrantsSpaced
        <3>3. \A s \in Sources : granted'[s] = IF s = k THEN Append(granted[k], now)
                                               ELSE granted[s]
            BY <1>1, <2>1
        <3> QED BY <3>2, <3>3 DEF LimitInv, Limit!RatesBounded
    <2>6. Limit!LockFollowsFails'
        <3> SUFFICES ASSUME NEW s \in Sources, Len(fails'[s]) >= PIN_FAILS
                     PROVE  until'[s] > 0
            BY DEF Limit!LockFollowsFails
        <3>1. CASE s # k
            BY <1>1, <2>1, <3>1 DEF LimitInv, Limit!LockFollowsFails
        <3>2. CASE s = k /\ Limit!Locked(k)
            <4>1. fails'[s] = fails[s] /\ until'[s] = until[s]
                BY <1>1, <2>1, <3>2
            <4> QED BY <4>1 DEF LimitInv, Limit!LockFollowsFails
        <3>3. CASE s = k /\ ~Limit!Locked(k)
            <4>1. fails'[s] = IF until[k] > 0 THEN <<>> ELSE fails[s]
                BY <1>1, <2>1, <3>3
            <4>2. Len(<<>>) = 0 /\ ~ (0 >= PIN_FAILS)
                BY DEF LimitNumbers
            <4>3. ~ (until[k] > 0) /\ fails'[s] = fails[s]
                BY <4>1, <4>2
            <4> QED BY <3>3, <4>3 DEF LimitInv, Limit!LockFollowsFails
        <3> QED BY <3>1, <3>2, <3>3
    <2> QED BY <2>3, <2>4, <2>5, <2>6 DEF LimitInv
<1>6. CASE ~Limit!Allows(k)
    <2>1. hits' = [hits EXCEPT ![k] = old] /\ UNCHANGED <<granted, until, fails>>
        BY <1>6 DEF Limit!Connect, Limit!Hit, Limit!Allows
    <2> HIDE DEF old
    <2>2. LimitClocks'
        BY <1>1, <1>3, <2>1 DEF LimitClocks
    <2>3. Remembered'
        <3> SUFFICES ASSUME NEW s \in Sources
                     PROVE  \E e \in Nat : Forgot(hits[s], granted[s], e)'
            BY DEF Remembered
        <3>1. CASE s = k
            <4>1. hits'[s] = old /\ granted'[s] = granted[k]
                BY <1>1, <2>1, <3>1
            <4> QED BY <1>1, <1>3, <4>1 DEF Forgot
        <3>2. CASE s # k
            <4>1. PICK e \in Nat : Forgot(hits[s], granted[s], e)
                BY DEF LimitInv, Remembered
            <4>2. hits'[s] = hits[s] /\ granted'[s] = granted[s]
                BY <1>1, <2>1, <3>2
            <4> QED BY <1>1, <4>1, <4>2 DEF Forgot
        <3> QED BY <3>1, <3>2
    <2>4. Limit!RatesBounded' /\ Limit!LockFollowsFails'
        BY <2>1 DEF LimitInv, Limit!RatesBounded, Limit!LockFollowsFails
    <2> QED BY <2>2, <2>3, <2>4 DEF LimitInv
<1> QED BY <1>5, <1>6

LEMMA LimitSweeps ==
    ASSUME LimitNumbers, LimitInv, Limit!Sweep
    PROVE  LimitInv'
<1>1. /\ now \in Nat /\ now' = now /\ hits \in [Sources -> Seq(Nat)]
      /\ UNCHANGED <<fails, granted, until>>
      /\ granted \in [Sources -> Seq(Nat)] /\ WINDOW \in Nat
      /\ hits' = [k \in Sources |-> Limit!Recent(hits[k], WINDOW)]
    BY DEF LimitInv, LimitClocks, Limit!Sweep, LimitNumbers
<1>2. \A k \in Sources : /\ Limit!Recent(hits[k], WINDOW) \in Seq(Nat)
                         /\ \E e \in Nat :
                              Forgot(Limit!Recent(hits[k], WINDOW), granted[k], e)
    <2> SUFFICES ASSUME NEW k \in Sources
                 PROVE  /\ Limit!Recent(hits[k], WINDOW) \in Seq(Nat)
                        /\ \E e \in Nat :
                               Forgot(Limit!Recent(hits[k], WINDOW), granted[k], e)
        OBVIOUS
    <2>1. PICK b \in Nat : Forgot(hits[k], granted[k], b)
        BY DEF LimitInv, Remembered
    <2> QED BY <1>1, <2>1, ForgetsOld
<1>3. LimitClocks'
    <2>1. hits' \in [Sources -> Seq(Nat)]
        BY <1>1, <1>2
    <2> QED BY <1>1, <2>1 DEF LimitInv, LimitClocks
<1>4. Remembered'
    <2> SUFFICES ASSUME NEW s \in Sources
                 PROVE  \E e \in Nat : Forgot(hits[s], granted[s], e)'
        BY DEF Remembered
    <2>1. hits'[s] = Limit!Recent(hits[s], WINDOW) /\ granted'[s] = granted[s]
        BY <1>1
    <2>2. PICK e \in Nat : Forgot(Limit!Recent(hits[s], WINDOW), granted[s], e)
        BY <1>2
    <2>3. Forgot(hits'[s], granted'[s], e)
        BY <2>1, <2>2
    <2> QED BY <1>1, <2>3 DEF Forgot
<1>5. Limit!RatesBounded' /\ Limit!LockFollowsFails'
    BY <1>1 DEF LimitInv, Limit!RatesBounded, Limit!LockFollowsFails
<1> QED BY <1>3, <1>4, <1>5 DEF LimitInv

LEMMA WrongPin ==
    ASSUME LimitNumbers, LimitInv, NEW k \in Sources, Limit!Wrong(k)
    PROVE  LimitInv'
<1> DEFINE q == Append(Limit!Recent(fails[k], PIN_WINDOW), now)
<1>1. /\ fails' = [fails EXCEPT ![k] = q]
      /\ until' = [until EXCEPT ![k] = IF Len(q) >= PIN_FAILS THEN now + PIN_LOCKOUT ELSE @]
      /\ UNCHANGED <<now, hits, rooms, granted>>
    BY DEF Limit!Wrong
<1>2. /\ now \in Nat /\ fails \in [Sources -> Seq(Nat)] /\ until \in [Sources -> Nat]
      /\ PIN_WINDOW \in Nat /\ PIN_LOCKOUT \in Nat \ {0} /\ PIN_FAILS \in Nat
    BY DEF LimitInv, LimitClocks, LimitNumbers
<1>3. Limit!Recent(fails[k], PIN_WINDOW) \in Seq(Nat)
    BY <1>2, FallsOff
<1>4. q \in Seq(Nat) /\ now + PIN_LOCKOUT \in Nat /\ now + PIN_LOCKOUT > 0
    BY <1>2, <1>3
<1> HIDE DEF q
<1>5. LimitClocks'
    BY <1>1, <1>2, <1>4 DEF LimitInv, LimitClocks
<1>6. Limit!LockFollowsFails'
    <2> SUFFICES ASSUME NEW s \in Sources, Len(fails'[s]) >= PIN_FAILS
                 PROVE  until'[s] > 0
        BY DEF Limit!LockFollowsFails
    <2>1. CASE s = k
        BY <1>1, <1>2, <1>4, <2>1
    <2>2. CASE s # k
        BY <1>1, <1>2, <2>2 DEF LimitInv, Limit!LockFollowsFails
    <2> QED BY <2>1, <2>2
<1>7. Remembered' /\ Limit!RatesBounded'
    BY <1>1, <1>2, WindowRests
<1> QED BY <1>5, <1>6, <1>7 DEF LimitInv

LEMMA LimitStep ==
    ASSUME LimitNumbers, LimitInv, [Limit!Next]_(Limit!vars)
    PROVE  LimitInv'
<1>1. now \in Nat /\ fails \in [Sources -> Seq(Nat)] /\ until \in [Sources -> Nat]
    BY DEF LimitInv, LimitClocks
<1>2. ASSUME UNCHANGED <<hits, fails, until, granted>>, now' \in {now, now + 1}
      PROVE  LimitInv'
    <2>1. now' \in Nat /\ now' >= now
        BY <1>1, <1>2
    <2>2. LimitClocks' /\ Limit!LockFollowsFails'
        BY <1>2, <2>1 DEF LimitInv, LimitClocks, Limit!LockFollowsFails
    <2> QED BY <1>2, <2>1, <2>2, WindowRests DEF LimitInv
<1>3. ASSUME NEW k \in Sources, Limit!Right(k)
      PROVE  LimitInv'
    <2>1. /\ fails' = [fails EXCEPT ![k] = <<>>] /\ until' = [until EXCEPT ![k] = 0]
          /\ UNCHANGED <<now, hits, granted>>
        BY <1>3 DEF Limit!Right
    <2>2. <<>> \in Seq(Nat) /\ Len(<<>>) = 0 /\ ~ (0 >= PIN_FAILS)
        BY DEF LimitNumbers
    <2>3. LimitClocks'
        BY <2>1, <2>2 DEF LimitInv, LimitClocks
    <2>4. Limit!LockFollowsFails'
        BY <1>1, <2>1, <2>2 DEF LimitInv, Limit!LockFollowsFails
    <2> QED BY <1>1, <2>1, <2>3, <2>4, WindowRests DEF LimitInv
<1>4. CASE Limit!Tick
    BY <1>2, <1>4 DEF Limit!Tick
<1>5. CASE Limit!Sweep
    BY <1>5, LimitSweeps
<1>6. ASSUME NEW k \in Sources, Limit!NoProof(k) \/ Limit!CreateRoom(k) \/ Limit!EndRoom(k)
      PROVE  LimitInv'
    BY <1>2, <1>6 DEF Limit!NoProof, Limit!CreateRoom, Limit!EndRoom
<1>7. CASE UNCHANGED Limit!vars
    BY <1>2, <1>7 DEF Limit!vars
<1> QED BY <1>3, <1>4, <1>5, <1>6, <1>7, LimitConnects, WrongPin DEF Limit!Next

\* The types of the tables: what the constants have to be.
LimitSizes ==
    /\ MaxTime \in Nat /\ MaxGuessing \in Nat /\ MAX_ROOMS_PER_IP \in Nat
    /\ WINDOW \in Nat /\ PIN_WINDOW \in Nat /\ PIN_LOCKOUT \in Nat

\* The times in the tables are times there have been.
LimitTyped ==
    /\ now \in 0 .. MaxTime
    /\ hits \in [Sources -> Limit!Times] /\ fails \in [Sources -> Limit!Times]
    /\ granted \in [Sources -> Limit!Times]
    /\ until \in [Sources -> 0 .. MaxTime + PIN_LOCKOUT]
    /\ guessing \in [Sources -> 0 .. MaxGuessing]
    /\ rooms \in [Sources -> 0 .. MAX_ROOMS_PER_IP]

LEMMA RecentTyped ==
    ASSUME LimitSizes, now \in 0 .. MaxTime, NEW q \in Limit!Times, NEW window \in Nat
    PROVE  Limit!Recent(q, window) \in Limit!Times
<1> DEFINE r == Limit!Recent(q, window)
<1>1. q \in Seq(Nat) /\ q \in Seq(0 .. MaxTime) /\ now \in Nat
  BY DEF LimitSizes, Limit!Times
<1>2. PICK m \in 0 .. Len(q) :
        r \in Seq(Nat) /\ Len(r) = Len(q) - m /\ \A n \in 1 .. Len(q) - m : r[n] = q[n + m]
  BY <1>1, FallsOff
<1> HIDE DEF r
<1>3. \A n \in 1 .. Len(r) : r[n] \in 0 .. MaxTime
  <2> SUFFICES ASSUME NEW n \in 1 .. Len(r) PROVE r[n] \in 0 .. MaxTime
    OBVIOUS
  <2>1. n + m \in 1 .. Len(q) /\ n \in 1 .. Len(q) - m
    BY <1>1, <1>2
  <2>2. r[n] = q[n + m]
    BY <1>2, <2>1
  <2>3. \A i \in 1 .. Len(q) : q[i] \in 0 .. MaxTime
    <3>1. q \in Seq(0 .. MaxTime)
      BY <1>1
    <3>2. \A S : q \in Seq(S) => \A i \in 1 .. Len(q) : q[i] \in S
      OBVIOUS
    <3> QED
      BY <3>1, <3>2, Zenon
  <2> QED
    BY <2>1, <2>2, <2>3
<1>4. r \in Seq(0 .. MaxTime)
  <2>1. r = [n \in 1 .. Len(r) |-> r[n]] /\ Len(r) \in Nat
    BY <1>2
  <2>2. [n \in 1 .. Len(r) |-> r[n]] \in Seq(0 .. MaxTime)
    BY <1>3, <2>1
  <2> QED
    BY <2>1, <2>2
<1> QED
  BY <1>4 DEF Limit!Times, r

LEMMA LimitTypedStart ==
    ASSUME LimitSizes, Limit!Init
    PROVE  LimitTyped
<1>1. <<>> \in Limit!Times
  BY DEF Limit!Times
<1> QED
  BY <1>1 DEF LimitSizes, Limit!Init, LimitTyped

LEMMA LimitTypedStep ==
    ASSUME LimitSizes, LimitTyped, [Limit!Next]_(Limit!vars)
    PROVE  LimitTyped'
<1>1. CASE UNCHANGED Limit!vars
  BY <1>1 DEF Limit!vars, LimitTyped
<1>2. ASSUME Limit!Tick PROVE LimitTyped'
  BY <1>2 DEF Limit!Tick, LimitTyped, LimitSizes
<1>3. now \in 0 .. MaxTime /\ now' = now => \A q \in Limit!Times : Append(q, now) \in Limit!Times
  BY DEF Limit!Times
<1>4. <<>> \in Limit!Times
  BY DEF Limit!Times
<1>5. \A k \in Sources : /\ Limit!Recent(hits[k], WINDOW) \in Limit!Times
                         /\ Limit!Recent(fails[k], PIN_WINDOW) \in Limit!Times
  BY RecentTyped DEF LimitTyped, LimitSizes
<1>6. ASSUME Limit!Sweep PROVE LimitTyped'
  BY <1>5, <1>6 DEF Limit!Sweep, LimitTyped
<1>7. ASSUME NEW k \in Sources, Limit!Connect(k) PROVE LimitTyped'
  <2>1. now' = now /\ rooms' = rooms /\ guessing[k] < MaxGuessing
    BY <1>7 DEF Limit!Connect
  <2>2. hits' \in [Sources -> Limit!Times]
    BY <1>3, <1>5, <1>7, <2>1 DEF Limit!Connect, Limit!Hit, LimitTyped
  <2>3. granted' \in [Sources -> Limit!Times]
    <3>1. Append(granted[k], now) \in Limit!Times
      BY <1>3, <2>1 DEF LimitTyped
    <3> QED
      BY <1>7, <3>1 DEF Limit!Connect, LimitTyped
  <2>6. fails' \in [Sources -> Limit!Times]
    BY <1>4, <1>7 DEF Limit!Connect, LimitTyped
  <2>4. until' \in [Sources -> 0 .. MaxTime + PIN_LOCKOUT]
    <3>1. 0 \in 0 .. MaxTime + PIN_LOCKOUT
      BY DEF LimitSizes
    <3> QED
      BY <1>7, <3>1 DEF Limit!Connect, LimitTyped
  <2>5. guessing' \in [Sources -> 0 .. MaxGuessing]
    <3>1. guessing[k] + 1 \in 0 .. MaxGuessing
      BY <2>1 DEF LimitTyped, LimitSizes
    <3> QED
      BY <1>7, <3>1 DEF Limit!Connect, LimitTyped
  <2> QED
    BY <2>1, <2>2, <2>3, <2>4, <2>5, <2>6 DEF LimitTyped
<1>8. ASSUME NEW k \in Sources, Limit!NoProof(k) \/ Limit!Right(k) \/ Limit!Wrong(k)
      PROVE  LimitTyped'
  <2>1. UNCHANGED <<now, hits, rooms, granted>> /\ guessing[k] > 0
        /\ guessing' = [guessing EXCEPT ![k] = @ - 1]
    BY <1>8 DEF Limit!NoProof, Limit!Right, Limit!Wrong
  <2>2. guessing' \in [Sources -> 0 .. MaxGuessing]
    <3>1. guessing[k] - 1 \in 0 .. MaxGuessing
      BY <2>1 DEF LimitTyped, LimitSizes
    <3> QED
      BY <2>1, <3>1 DEF LimitTyped
  <2>3. fails' \in [Sources -> Limit!Times]
    <3>1. Append(Limit!Recent(fails[k], PIN_WINDOW), now) \in Limit!Times
      BY <1>3, <1>5, <2>1 DEF LimitTyped
    <3> QED
      BY <1>4, <1>8, <3>1 DEF Limit!NoProof, Limit!Right, Limit!Wrong, LimitTyped
  <2>4. until' \in [Sources -> 0 .. MaxTime + PIN_LOCKOUT]
    <3>1. 0 \in 0 .. MaxTime + PIN_LOCKOUT /\ now + PIN_LOCKOUT \in 0 .. MaxTime + PIN_LOCKOUT
      BY DEF LimitSizes, LimitTyped
    <3> QED
      BY <1>8, <3>1 DEF Limit!NoProof, Limit!Right, Limit!Wrong, LimitTyped
  <2> QED
    BY <2>1, <2>2, <2>3, <2>4 DEF LimitTyped
<1>9. ASSUME NEW k \in Sources, Limit!CreateRoom(k) \/ Limit!EndRoom(k) PROVE LimitTyped'
  <2>1. UNCHANGED <<now, hits, fails, until, guessing, granted>>
    BY <1>9 DEF Limit!CreateRoom, Limit!EndRoom
  <2>2. rooms' \in [Sources -> 0 .. MAX_ROOMS_PER_IP]
    BY <1>9 DEF Limit!CreateRoom, Limit!EndRoom, LimitTyped, LimitSizes
  <2> QED
    BY <2>1, <2>2 DEF LimitTyped
<1> QED
  BY <1>1, <1>2, <1>6, <1>7, <1>8, <1>9 DEF Limit!Next

LEMMA LimitShowsTypes ==
    ASSUME LimitTyped
    PROVE  Limit!TypeOK
BY DEF LimitTyped, Limit!TypeOK

----------------------------------------------------------------------------
(* WebGuests. *)

\* The bounds are numbers, and each table has room for a pair.
GuestBounds ==
    /\ MaxGuests \in Nat /\ MaxAlias \in Nat /\ LineMax \in Nat
    /\ _WEB_NAMES_MAX \in Nat \ {0} /\ _ALIAS_MAX \in Nat \ {0}

\* Books with numbers up to c: the numbers in use are the guests they were
\* first given to, and the rest were given to nobody.
BooksKept(b, c) ==
    /\ b.alias \in Seq(Guest!Vid \X (1 .. MaxAlias)) /\ Len(b.alias) <= _ALIAS_MAX
    /\ b.counter \in 0 .. MaxAlias /\ b.counter <= c
    /\ b.told \in [1 .. MaxAlias -> 0 .. MaxGuests]
    /\ \A i \in DOMAIN b.alias : b.alias[i][2] <= b.counter
                                 /\ b.told[b.alias[i][2]] = b.alias[i][1]
    /\ \A n \in 1 .. MaxAlias : n > b.counter => b.told[n] = 0

\* What the room was shown last is the roster, but for guests held back.
Painted == seat = "up" /\ ~forgot => \A v \in Guest!Vid \ settling : shown[v] = roster[v]

GuestLineOK ==
    /\ watching \subseteq Guest!Vid /\ guests \in 0 .. MaxGuests /\ linked \in BOOLEAN
    /\ line \in Seq(Guest!LineFrame) /\ Len(line) <= LineMax

Handles == Names \cup {Pseudonym, Guest!NoName}
RostersOK ==
    /\ seat \in {"up", "broken", "down"} /\ forgot \in BOOLEAN
    /\ roster \in [Guest!Vid -> Handles] /\ shown \in [Guest!Vid -> Handles]
    /\ names \in Seq(Guest!Vid \X Names) /\ Len(names) <= _WEB_NAMES_MAX
    /\ settling \subseteq Guest!Vid /\ asked \subseteq Guest!Vid

GuestInv == GuestLineOK /\ RostersOK /\ BooksKept(Guest!Books, _alias_counter) /\ Painted

LEMMA GuestStart ==
    ASSUME GuestBounds, Guest!Init
    PROVE  GuestInv
<1>1. Guest!NoGuests \in [Guest!Vid -> Names \cup {Pseudonym, Guest!NoName}]
  BY DEF Guest!NoGuests
<1>2. told \in [1 .. MaxAlias -> 0 .. MaxGuests] /\ guests \in 0 .. MaxGuests
      /\ _alias_counter \in 0 .. MaxAlias
  BY DEF Guest!Init, GuestBounds
<1>3. \A T : <<>> \in Seq(T)
  OBVIOUS
<1>4. Len(<<>>) = 0 /\ DOMAIN <<>> = {}
  OBVIOUS
<1>5. GuestLineOK /\ RostersOK
  <2>1. Len(line) <= LineMax /\ Len(names) <= _WEB_NAMES_MAX /\ Len(alias) <= _ALIAS_MAX
    BY <1>4 DEF Guest!Init, GuestBounds
  <2> QED
    BY <1>1, <1>2, <1>3, <2>1 DEF Guest!Init, GuestLineOK, RostersOK, Handles
<1>6. BooksKept(Guest!Books, _alias_counter)
  BY <1>2, <1>3, <1>4 DEF Guest!Init, GuestBounds, BooksKept, Guest!Books
<1>7. Painted
  BY DEF Guest!Init, Painted
<1> QED
  BY <1>5, <1>6, <1>7 DEF GuestInv

LEMMA GuestShows ==
    ASSUME GuestInv
    PROVE  Guest!TypeOK /\ Guest!RosterShown /\ Guest!AliasKeepsGuest
<1>1. Guest!TypeOK
  <2>1. /\ alias \in Seq(Guest!Vid \X (1 .. MaxAlias)) /\ Len(alias) <= _ALIAS_MAX
        /\ _alias_counter \in 0 .. MaxAlias /\ told \in [1 .. MaxAlias -> 0 .. MaxGuests]
    BY DEF GuestInv, BooksKept, Guest!Books
  <2> QED
    BY <2>1 DEF GuestInv, GuestLineOK, RostersOK, Handles, Guest!TypeOK
<1>2. Guest!RosterShown
  BY DEF GuestInv, RostersOK, Painted, Guest!RosterShown
<1>3. Guest!AliasKeepsGuest
  BY DEF GuestInv, BooksKept, Guest!Books, Guest!AliasKeepsGuest
<1> QED
  BY <1>1, <1>2, <1>3

\* A table that makes room keeps its pairs, in their order.
LEMMA Roomy ==
    ASSUME NEW T, NEW q \in Seq(T), NEW max \in Nat \ {0}, Len(q) <= max
    PROVE  /\ Guest!Room(q, max) \in Seq(T) /\ Len(Guest!Room(q, max)) + 1 <= max
           /\ \A i \in DOMAIN Guest!Room(q, max) : \E j \in DOMAIN q :
                Guest!Room(q, max)[i] = q[j]
<1>1. CASE Len(q) >= max
  <2>1. Guest!Room(q, max) = Tail(q) /\ Len(q) # 0 /\ q # <<>>
    BY <1>1 DEF Guest!Room
  <2>2. /\ Tail(q) \in Seq(T) /\ Len(Tail(q)) = Len(q) - 1
        /\ \A i \in 1 .. Len(q) - 1 : Tail(q)[i] = q[i + 1] /\ i + 1 \in 1 .. Len(q)
    BY <2>1
  <2>3. DOMAIN Tail(q) = 1 .. Len(q) - 1 /\ DOMAIN q = 1 .. Len(q)
    BY <2>2
  <2> QED
    BY <1>1, <2>1, <2>2, <2>3
<1>2. CASE ~ (Len(q) >= max)
  BY <1>2 DEF Guest!Room
<1> QED
  BY <1>1, <1>2

\* What comes of a table at its end.
LEMMA Appended ==
    ASSUME NEW T, NEW q \in Seq(T), NEW e \in T
    PROVE  /\ Append(q, e) \in Seq(T) /\ Len(Append(q, e)) = Len(q) + 1
           /\ \A i \in DOMAIN Append(q, e) :
                  Append(q, e)[i] = e \/ (i \in DOMAIN q /\ Append(q, e)[i] = q[i])
OBVIOUS

\* A guest who is numbered gets the next number or keeps the old one.
LEMMA NumbersOne ==
    ASSUME GuestBounds, NEW b, NEW c \in Nat, BooksKept(b, c), c < MaxAlias,
           NEW v \in Guest!Vid
    PROVE  BooksKept(Guest!Numbered(b, v), c + 1)
<1>1. CASE Guest!HasKey(b.alias, v)
  BY <1>1 DEF Guest!Numbered, BooksKept
<1>2. CASE ~Guest!HasKey(b.alias, v)
  <2> DEFINE n == b.counter + 1
             e == <<v, n>>
             room == Guest!Room(b.alias, _ALIAS_MAX)
             after == Guest!Numbered(b, v)
  <2>1. n \in 1 .. MaxAlias /\ n <= c + 1 /\ n > b.counter /\ n \in 0 .. MaxAlias
    BY DEF BooksKept, GuestBounds
  <2>2. b.told[n] = 0
    BY <2>1 DEF BooksKept
  <2>3. /\ after.alias = Append(room, e) /\ after.counter = n
        /\ after.told = [b.told EXCEPT ![n] = v]
    BY <1>2, <2>2 DEF Guest!Numbered
  <2>4. e \in Guest!Vid \X (1 .. MaxAlias)
    BY <2>1
  <2>5. /\ room \in Seq(Guest!Vid \X (1 .. MaxAlias)) /\ Len(room) + 1 <= _ALIAS_MAX
        /\ \A i \in DOMAIN room : \E j \in DOMAIN b.alias : room[i] = b.alias[j]
    BY Roomy DEF BooksKept, GuestBounds
  <2> HIDE DEF room, e, after
  <2>6. /\ after.alias \in Seq(Guest!Vid \X (1 .. MaxAlias))
             /\ Len(after.alias) <= _ALIAS_MAX
        /\ \A i \in DOMAIN after.alias :
               after.alias[i] = e \/ (i \in DOMAIN room /\ after.alias[i] = room[i])
    BY <2>3, <2>4, <2>5, Appended
  <2>7. v \in 0 .. MaxGuests
    BY DEF Guest!Vid, GuestBounds
  <2>8. after.told \in [1 .. MaxAlias -> 0 .. MaxGuests] /\ after.told[n] = v
        /\ \A k \in 1 .. MaxAlias : k # n => after.told[k] = b.told[k]
    BY <2>1, <2>3, <2>7 DEF BooksKept
  <2>9. ASSUME NEW i \in DOMAIN after.alias
        PROVE  after.alias[i][2] <= n /\ after.told[after.alias[i][2]] = after.alias[i][1]
    <3>1. CASE after.alias[i] = e
      BY <2>1, <2>8, <3>1 DEF e
    <3>2. CASE i \in DOMAIN room /\ after.alias[i] = room[i]
      <4>1. PICK j \in DOMAIN b.alias : room[i] = b.alias[j]
        BY <2>5, <3>2
      <4>2. /\ b.alias[j][2] <= b.counter /\ b.told[b.alias[j][2]] = b.alias[j][1]
            /\ b.alias[j][2] \in 1 .. MaxAlias
        BY DEF BooksKept
      <4>3. b.alias[j][2] # n /\ b.alias[j][2] <= n
        BY <2>1, <4>2 DEF BooksKept
      <4> QED
        BY <2>8, <3>2, <4>1, <4>2, <4>3
    <3> QED
      BY <2>6, <3>1, <3>2
  <2>10. ASSUME NEW k \in 1 .. MaxAlias, k > n
         PROVE  after.told[k] = 0
    <3>1. k # n /\ k > b.counter
      BY <2>10 DEF BooksKept
    <3> QED
      BY <2>8, <3>1 DEF BooksKept
  <2> HIDE DEF n
  <2> QED
    BY <2>1, <2>3, <2>6, <2>8, <2>9, <2>10 DEF BooksKept, after
<1> QED
  BY <1>1, <1>2

\* The books after each of the first n guests of a roster.
NumberChain(f, b, r, n) ==
    /\ f = [v \in 0 .. n |-> f[v]] /\ f[0] = b
    /\ \A v \in 1 .. n :
         f[v] = IF r[v] = Guest!NoName THEN f[v - 1] ELSE Guest!Numbered(f[v - 1], v)

LEMMA ChainExists ==
    ASSUME GuestBounds, NEW b, NEW r, NEW n \in Nat
    PROVE  \E f : NumberChain(f, b, r, n)
<1> DEFINE T == {k \in Nat : ~ \E f : NumberChain(f, b, r, k)}
<1> SUFFICES ASSUME T # {}
             PROVE  FALSE
  OBVIOUS
<1>1. PICK m \in T : \A k \in T : m <= k
  <2> HIDE DEF T
  <2>1. T \in SUBSET Nat
    BY DEF T
  <2> QED
    BY <2>1, LeastNumber
<1>2. CASE m = 0
  <2> DEFINE g == [v \in 0 .. 0 |-> b]
  <2>0. g = [v \in 0 .. 0 |-> g[v]] /\ g[0] = b /\ 1 .. 0 = {}
    OBVIOUS
  <2> HIDE DEF g
  <2>1. NumberChain(g, b, r, 0)
    BY <2>0 DEF NumberChain
  <2> QED
    BY <1>2, <2>1
<1>3. CASE m # 0
  <2>1. m - 1 \in Nat /\ m - 1 \notin T
    BY <1>1, <1>3
  <2>2. PICK f : NumberChain(f, b, r, m - 1)
    BY <2>1
  <2> DEFINE g == [v \in 0 .. m |->
                      IF v < m THEN f[v]
                      ELSE IF r[v] =
                        Guest!NoName THEN f[v - 1] ELSE Guest!Numbered(f[v - 1], v)]
  <2>3. g = [v \in 0 .. m |-> g[v]]
    OBVIOUS
  <2>4. g[0] = b
    <3>1. 0 \in 0 .. m /\ 0 < m
      BY <1>1, <1>3
    <3>2. f[0] = b
      BY <2>2 DEF NumberChain
    <3> QED
      BY <3>1, <3>2
  <2>5. ASSUME NEW v \in 1 .. m
        PROVE  g[v] = IF r[v] = Guest!NoName THEN g[v - 1] ELSE Guest!Numbered(g[v - 1], v)
    <3>1. v \in 0 .. m /\ v - 1 \in 0 .. m /\ v - 1 < m
      BY <1>1, <1>3
    <3>2. g[v - 1] = f[v - 1]
      BY <3>1
    <3>3. CASE v < m
      <4>1. v \in 1 .. m - 1
        BY <1>1, <3>3
      <4>2. f[v] = IF r[v] = Guest!NoName THEN f[v - 1] ELSE Guest!Numbered(f[v - 1], v)
        BY <2>2, <4>1 DEF NumberChain
      <4>3. g[v] = f[v]
        BY <3>1, <3>3
      <4> HIDE DEF g
      <4> QED
        BY <3>2, <4>2, <4>3
    <3>4. CASE ~ (v < m)
      <4>1. g[v] = IF r[v] = Guest!NoName THEN f[v - 1] ELSE Guest!Numbered(f[v - 1], v)
        BY <3>1, <3>4
      <4> HIDE DEF g
      <4> QED
        BY <3>2, <4>1
    <3> QED
      BY <3>3, <3>4
  <2> HIDE DEF g
  <2>6. NumberChain(g, b, r, m)
    BY <2>3, <2>4, <2>5 DEF NumberChain
  <2> QED
    BY <2>6
<1> QED
  BY <1>2, <1>3

\* Everybody on a roster is numbered, one after another.
LEMMA NumbersAll ==
    ASSUME GuestBounds, NEW b, NEW r, NEW c \in Nat, BooksKept(b, c),
           c + MaxGuests <= MaxAlias
    PROVE  BooksKept(Guest!NumberAll(b, r), c + MaxGuests)
<1> DEFINE Is(f) == f = [v \in 0 .. MaxGuests |->
                            IF v = 0 THEN b
                            ELSE IF r[v] =
                              Guest!NoName THEN f[v - 1] ELSE Guest!Numbered(f[v - 1], v)]
           after == CHOOSE f : Is(f)
<1>1. Guest!NumberAll(b, r) = after[MaxGuests]
  BY DEF Guest!NumberAll
<1>2. PICK g : NumberChain(g, b, r, MaxGuests)
  BY ChainExists DEF GuestBounds
<1>3. Is(g)
  <2>1. \A v \in 0 .. MaxGuests :
            g[v] = IF v = 0 THEN b
                   ELSE IF r[v] =
                     Guest!NoName THEN g[v - 1] ELSE Guest!Numbered(g[v - 1], v)
    <3>1. \A v \in 0 .. MaxGuests : v = 0 \/ v \in 1 .. MaxGuests
      BY DEF GuestBounds
    <3> QED
      BY <1>2, <3>1 DEF NumberChain
  <2>2. g = [v \in 0 .. MaxGuests |-> g[v]]
    BY <1>2 DEF NumberChain
  <2> QED
    BY <2>1, <2>2
<1>4. Is(after)
  <2> HIDE DEF Is
  <2> QED
    BY <1>3
<1>5. \A v \in 0 .. MaxGuests :
          after[v] = IF v = 0 THEN b
                     ELSE IF r[v] =
                       Guest!NoName THEN after[v - 1] ELSE Guest!Numbered(after[v - 1], v)
  <2> HIDE DEF after
  <2> QED
    BY <1>4
<1> HIDE DEF after
<1> DEFINE T == {v \in 0 .. MaxGuests : ~BooksKept(after[v], c + v)}
<1>6. T = {}
  <2> SUFFICES ASSUME T # {}
               PROVE  FALSE
    OBVIOUS
  <2>1. T \in SUBSET Nat
    BY DEF GuestBounds
  <2>2. PICK m \in T : \A k \in T : m <= k
    <3> HIDE DEF T
    <3> QED
      BY <2>1, LeastNumber
  <2>3. CASE m = 0
    <3>1. after[0] = b /\ c + 0 = c /\ 0 \in 0 .. MaxGuests
      BY <1>5 DEF GuestBounds
    <3> HIDE DEF T
    <3>2. ~BooksKept(after[m], c + m)
      BY DEF T
    <3> QED
      BY <2>3, <3>1, <3>2
  <2>4. CASE m # 0
    <3>1. m \in 0 .. MaxGuests /\ m - 1 \in 0 .. MaxGuests /\ m - 1 < m /\ m \in Guest!Vid
          /\ m \in Nat /\ c + (m - 1) \in Nat /\ c + (m - 1) < MaxAlias
          /\ (c + (m - 1)) + 1 = c + m /\ c + (m - 1) <= c + m
      BY <2>2, <2>4 DEF GuestBounds, Guest!Vid
    <3>2. BooksKept(after[m - 1], c + (m - 1))
      BY <2>2, <3>1
    <3>3. BooksKept(Guest!Numbered(after[m - 1], m), c + m)
      BY <3>1, <3>2, NumbersOne
    <3>4. BooksKept(after[m - 1], c + m)
      BY <3>1, <3>2 DEF BooksKept
    <3>5. BooksKept(after[m], c + m)
      BY <1>5, <2>4, <3>1, <3>3, <3>4
    <3> QED
      BY <2>2, <3>5
  <2> QED
    BY <2>3, <2>4
<1>7. MaxGuests \in 0 .. MaxGuests
  BY DEF GuestBounds
<1> QED
  BY <1>1, <1>6, <1>7

\* What the relay says is on the line, or lost.
LEMMA Says ==
    ASSUME GuestBounds, GuestLineOK, NEW f \in Guest!LineFrame, Guest!Say(f)
    PROVE  line' \in Seq(Guest!LineFrame) /\ Len(line') <= LineMax
<1>1. line \in Seq(Guest!LineFrame) /\ Len(line) <= LineMax /\ Len(line) \in Nat
  BY DEF GuestLineOK
<1>2. Append(line, f) \in Seq(Guest!LineFrame) /\ Len(Append(line, f)) = Len(line) + 1
  BY <1>1, Appended
<1>3. Len(line) < LineMax => Len(line) + 1 <= LineMax
  BY <1>1 DEF GuestBounds
<1> HIDE DEF Guest!LineFrame
<1> QED
  BY <1>1, <1>2, <1>3 DEF Guest!Say

LEMMA Concatenated ==
    ASSUME NEW T, NEW p \in Seq(T), NEW q \in Seq(T)
    PROVE  p \o q \in Seq(T) /\ Len(p \o q) = Len(p) + Len(q)
OBVIOUS

\* A name that is remembered, and the names after one is chosen.
LEMMA NamesKept ==
    ASSUME GuestBounds, RostersOK, NEW v \in Guest!Vid
    PROVE  /\ Guest!HasKey(names, v) => Guest!Lookup(names, v) \in Names
           /\ \A n \in Names \cup {Guest!NoName} :
                  Guest!Renamed(v, n) \in Seq(Guest!Vid \X Names)
                    /\ Len(Guest!Renamed(v, n)) <= _WEB_NAMES_MAX
<1> DEFINE spot == CHOOSE i \in DOMAIN names : names[i][1] = v
<1>1. names \in Seq(Guest!Vid \X Names) /\ Len(names) <= _WEB_NAMES_MAX
  BY DEF RostersOK
<1>2. Guest!HasKey(names, v) => spot \in DOMAIN names
  BY DEF Guest!HasKey
<1> HIDE DEF spot
<1>3. Guest!HasKey(names, v) => names[spot][2] \in Names /\ spot \in 1 .. Len(names)
  BY <1>1, <1>2
<1>4. ASSUME NEW n \in Names \cup {Guest!NoName}
      PROVE  Guest!Renamed(v, n) \in Seq(Guest!Vid \X Names)
               /\ Len(Guest!Renamed(v, n)) <= _WEB_NAMES_MAX
  <2>1. CASE n = Guest!NoName
    <3>1. Guest!Renamed(v, n) =
            IF Guest!HasKey(names, v) THEN Guest!RemoveAt(names, spot) ELSE names
      BY <2>1 DEF Guest!Renamed, spot
    <3>2. ASSUME Guest!HasKey(names, v)
          PROVE  Guest!RemoveAt(names, spot) \in Seq(Guest!Vid \X Names)
                 /\ Len(Guest!RemoveAt(names, spot)) = Len(names) - 1
      <4>1. /\ SubSeq(names, 1, spot - 1) \in Seq(Guest!Vid \X Names)
            /\ Len(SubSeq(names, 1, spot - 1)) = spot - 1
            /\ SubSeq(names, spot + 1, Len(names)) \in Seq(Guest!Vid \X Names)
            /\ Len(SubSeq(names, spot + 1, Len(names))) = Len(names) - spot
        BY <1>1, <1>3, <3>2
      <4> QED
        <5>1. Guest!RemoveAt(names, spot) =
                SubSeq(names, 1, spot - 1) \o SubSeq(names, spot + 1, Len(names))
          BY DEF Guest!RemoveAt
        <5>2. (spot - 1) + (Len(names) - spot) = Len(names) - 1
          BY <1>1, <1>3, <3>2
        <5> QED
          BY <4>1, <5>1, <5>2, Concatenated
    <3> QED
      BY <1>1, <3>1, <3>2 DEF GuestBounds
  <2>2. CASE n # Guest!NoName /\ Guest!HasKey(names, v)
    <3>1. Guest!Renamed(v, n) = [names EXCEPT ![spot] = <<v, n>>]
      BY <2>2 DEF Guest!Renamed, spot
    <3> QED
      BY <1>1, <1>3, <2>2, <3>1
  <2>3. CASE n # Guest!NoName /\ ~Guest!HasKey(names, v)
    <3>1. Guest!Renamed(v, n) = Append(Guest!Room(names, _WEB_NAMES_MAX), <<v, n>>)
      BY <2>3 DEF Guest!Renamed
    <3>2. Guest!Room(names, _WEB_NAMES_MAX) \in Seq(Guest!Vid \X Names)
          /\ Len(Guest!Room(names, _WEB_NAMES_MAX)) + 1 <= _WEB_NAMES_MAX
      BY <1>1, Roomy DEF GuestBounds
    <3>3. <<v, n>> \in Guest!Vid \X Names
      BY <2>3
    <3> QED
      BY <3>1, <3>2, <3>3, Appended
  <2> QED
    BY <2>1, <2>2, <2>3
<1> QED
  BY <1>3, <1>4 DEF Guest!Lookup, spot

\* Books that are kept stay so.
LEMMA BooksMove ==
    ASSUME NEW b, NEW c, BooksKept(b, c), Guest!Keep(b)
    PROVE  BooksKept(Guest!Books, _alias_counter)'
BY DEF BooksKept, Guest!Keep, Guest!Books

LEMMA BooksStay ==
    ASSUME BooksKept(Guest!Books, _alias_counter), UNCHANGED Guest!books
    PROVE  BooksKept(Guest!Books, _alias_counter)'
BY DEF BooksKept, Guest!books, Guest!Books

\* A broadcast numbers the roster and shows it, unless the room's socket is off.
LEMMA Broadcasts ==
    ASSUME GuestBounds, NEW r \in [Guest!Vid -> Handles], NEW b, NEW c \in Nat,
           BooksKept(b, c),
           c + MaxGuests <= MaxAlias, RostersOK, Guest!Broadcast(r, b)
    PROVE  /\ BooksKept(Guest!Books, _alias_counter)'
           /\ IF seat = "up" THEN shown' = r /\ forgot' = FALSE
                             ELSE UNCHANGED <<shown, forgot>>
           /\ shown' \in [Guest!Vid -> Handles] /\ forgot' \in BOOLEAN
<1>1. BooksKept(Guest!NumberAll(b, r), c + MaxGuests)
  BY NumbersAll
<1>2. BooksKept(Guest!Books, _alias_counter)'
  BY <1>1, BooksMove DEF Guest!Broadcast
<1>3. IF seat = "up" THEN shown' = r /\ forgot' = FALSE ELSE UNCHANGED <<shown, forgot>>
  BY DEF Guest!Broadcast
<1> QED
  BY <1>2, <1>3 DEF RostersOK

\* What the publisher does with a frame about a guest, or at the end of a wait.
PublisherKept == RostersOK /\ BooksKept(Guest!Books, _alias_counter) /\ Painted

LEMMA JoinedStep ==
    ASSUME GuestBounds, PublisherKept, NEW v \in Guest!Vid, Guest!CanNumber,
           Guest!Joined(v), UNCHANGED seat
    PROVE  PublisherKept'
<1> DEFINE known == Guest!HasKey(names, v)
           h == IF known THEN Guest!Lookup(names, v) ELSE Pseudonym
           r == [roster EXCEPT ![v] = h]
           b == Guest!Numbered(Guest!Books, v)
           c == _alias_counter + 1
<1>1. h \in Handles
  BY NamesKept DEF PublisherKept, Handles
<1>2. r \in [Guest!Vid -> Handles] /\ \A w \in Guest!Vid : w # v => r[w] = roster[w]
  <2> HIDE DEF h
  <2> QED
    BY <1>1 DEF PublisherKept, RostersOK
<1>3. _alias_counter \in Nat /\ _alias_counter < MaxAlias /\ c \in Nat
        /\ c + MaxGuests <= MaxAlias
  BY DEF PublisherKept, BooksKept, Guest!Books, Guest!CanNumber, GuestBounds
<1>4. BooksKept(b, c)
  BY <1>3, NumbersOne DEF PublisherKept
<1>5. roster' = r /\ names' = names /\ asked' = asked
      /\ IF known THEN Guest!Broadcast(r, b) /\ UNCHANGED settling
                  ELSE Guest!Quiet(b) /\ settling' = settling \cup {v}
  BY DEF Guest!Joined
<1> HIDE DEF known, h, r, b, c
<1>6. CASE known
  BY <1>2, <1>3, <1>4, <1>5, <1>6, Broadcasts DEF PublisherKept, RostersOK, Painted
<1>7. CASE ~known
  <2>1. BooksKept(Guest!Books, _alias_counter)'
    BY <1>4, <1>5, <1>7, BooksMove DEF Guest!Quiet
  <2>2. /\ settling' = settling \cup {v} /\ UNCHANGED <<shown, forgot, seat>>
        /\ roster' = r /\ names' = names /\ asked' = asked
    BY <1>5, <1>7 DEF Guest!Quiet
  <2> QED
    BY <1>2, <2>1, <2>2 DEF PublisherKept, RostersOK, Painted
<1> QED
  BY <1>6, <1>7

LEMMA NamedStep ==
    ASSUME GuestBounds, PublisherKept, NEW v \in Guest!Vid,
           NEW n \in Names \cup {Guest!NoName}, Guest!CanNumber,
           Guest!Named(v, n), UNCHANGED seat
    PROVE  PublisherKept'
<1> DEFINE h == IF n = Guest!NoName THEN Pseudonym ELSE n
           r == [roster EXCEPT ![v] = h]
<1>1. h \in Handles
  BY DEF Handles
<1>2. r \in [Guest!Vid -> Handles] /\ r[v] = h
        /\ \A w \in Guest!Vid : w # v => r[w] = roster[w]
  <2> HIDE DEF h
  <2> QED
    BY <1>1 DEF PublisherKept, RostersOK
<1>3. names' \in Seq(Guest!Vid \X Names) /\ Len(names') <= _WEB_NAMES_MAX /\ asked' = asked
  BY NamesKept DEF Guest!Named, PublisherKept
<1>4. _alias_counter \in Nat /\ _alias_counter + MaxGuests <= MaxAlias
  BY DEF PublisherKept, BooksKept, Guest!Books, Guest!CanNumber, GuestBounds
<1>5. CASE roster[v] = Guest!NoName
  <2>1. UNCHANGED <<roster, settling, shown, forgot, seat>> /\ Guest!Keep(Guest!Books)
    BY <1>5 DEF Guest!Named, Guest!Quiet
  <2> QED
    BY <1>3, <2>1, BooksMove DEF PublisherKept, RostersOK, Painted
<1>6. CASE roster[v] # Guest!NoName
  <2>1. /\ settling' = settling \ {v} /\ roster' = r /\ seat' = seat
        /\ IF roster[v] = h
             /\ v \notin settling
               THEN Guest!Quiet(Guest!Books) ELSE Guest!Broadcast(r, Guest!Books)
    BY <1>6 DEF Guest!Named
  <2> HIDE DEF h, r
  <2>2. CASE roster[v] = h /\ v \notin settling
    <3>1. UNCHANGED <<shown, forgot>> /\ Guest!Keep(Guest!Books)
      BY <2>1, <2>2 DEF Guest!Quiet
    <3>2. \A w \in Guest!Vid : r[w] = roster[w]
      BY <1>2, <2>2
    <3>3. BooksKept(Guest!Books, _alias_counter)'
      BY <3>1, BooksMove DEF PublisherKept
    <3>4. settling' = settling
      BY <2>1, <2>2
    <3>5. RostersOK'
      BY <1>2, <1>3, <2>1, <3>1, <3>4 DEF PublisherKept, RostersOK
    <3>6. Painted'
      BY <2>1, <3>1, <3>2, <3>4 DEF PublisherKept, Painted
    <3> QED
      BY <3>3, <3>5, <3>6 DEF PublisherKept
  <2>3. CASE ~ (roster[v] = h /\ v \notin settling)
    BY <1>2, <1>3, <1>4, <2>1, <2>3, Broadcasts DEF PublisherKept, RostersOK, Painted
  <2> QED
    BY <2>2, <2>3
<1> QED
  BY <1>5, <1>6

LEMMA RequestedStep ==
    ASSUME GuestBounds, PublisherKept, NEW v \in Guest!Vid, Guest!CanNumber,
           Guest!Requested(v), UNCHANGED seat
    PROVE  PublisherKept'
<1>1. _alias_counter \in Nat /\ _alias_counter < MaxAlias
  BY DEF PublisherKept, BooksKept, Guest!Books, Guest!CanNumber, GuestBounds
<1>2. BooksKept(Guest!Numbered(Guest!Books, v), _alias_counter + 1)
  BY <1>1, NumbersOne DEF PublisherKept
<1>3. BooksKept(Guest!Books, _alias_counter)'
  BY <1>2, BooksMove DEF Guest!Requested, Guest!Quiet
<1>4. UNCHANGED <<roster, names, settling, shown, forgot>> /\ asked' = asked \cup {v}
  BY DEF Guest!Requested, Guest!Quiet
<1> QED
  BY <1>3, <1>4 DEF PublisherKept, RostersOK, Painted

LEMMA LeftStep ==
    ASSUME GuestBounds, PublisherKept, NEW v \in Guest!Vid, Guest!CanNumber, Guest!Left(v),
           UNCHANGED seat
    PROVE  PublisherKept'
<1> DEFINE r == [roster EXCEPT ![v] = Guest!NoName]
<1>1. r \in [Guest!Vid -> Handles]
  BY DEF PublisherKept, RostersOK, Handles
<1>2. _alias_counter \in Nat /\ _alias_counter + MaxGuests <= MaxAlias
  BY DEF PublisherKept, BooksKept, Guest!Books, Guest!CanNumber, GuestBounds
<1>3. /\ asked' = asked \ {v} /\ settling' = settling \ {v} /\ roster' = r
      /\ Guest!Broadcast(r, Guest!Books) /\ names' = names
  BY DEF Guest!Left
<1>4. CASE seat = "up"
  <2> HIDE DEF r
  <2> QED
    BY <1>1, <1>2, <1>3, <1>4, Broadcasts DEF PublisherKept, RostersOK, Painted
<1>5. CASE seat # "up"
  <2> HIDE DEF r
  <2> QED
    BY <1>1, <1>2, <1>3, <1>5, Broadcasts DEF PublisherKept, RostersOK, Painted
<1> QED
  BY <1>4, <1>5

LEMMA GuestTakes ==
    ASSUME GuestBounds, GuestLineOK, PublisherKept, Guest!TakeLine
    PROVE  GuestInv'
<1> DEFINE f == Head(line)
<1>1. /\ f \in Guest!LineFrame /\ Tail(line) \in Seq(Guest!LineFrame)
      /\ Len(Tail(line)) <= LineMax
  <2>1. line \in Seq(Guest!LineFrame) /\ line # <<>> /\ Len(line) <= LineMax
    BY DEF GuestLineOK, Guest!TakeLine
  <2> HIDE DEF Guest!LineFrame
  <2> QED
    BY <2>1 DEF GuestBounds
<1>2. f.vid \in Guest!Vid /\ f.kind = "name" => f.name \in Names \cup {Guest!NoName}
  BY <1>1 DEF Guest!LineFrame
<1>3. f.vid \in Guest!Vid
  BY <1>1 DEF Guest!LineFrame
<1>4. GuestLineOK'
  BY <1>1 DEF GuestLineOK, Guest!TakeLine
<1>5. /\ Guest!CanNumber /\ UNCHANGED seat
      /\ \/ f.kind = "joined" /\ Guest!Joined(f.vid)
         \/ f.kind = "name" /\ Guest!Named(f.vid, f.name)
         \/ f.kind = "request" /\ Guest!Requested(f.vid)
         \/ f.kind = "left" /\ Guest!Left(f.vid)
  BY DEF Guest!TakeLine
<1> HIDE DEF f
<1>6. PublisherKept'
  BY <1>2, <1>3, <1>5, JoinedStep, NamedStep, RequestedStep, LeftStep
<1> QED
  BY <1>4, <1>6 DEF GuestInv, PublisherKept

\* One step of the relay, a guest, the publisher or the room.
LEMMA GuestStep ==
    ASSUME GuestBounds, GuestInv, [Guest!Next]_(Guest!guestVars)
    PROVE  GuestInv'
<1>1. GuestLineOK /\ PublisherKept
  BY DEF GuestInv, PublisherKept
<1>2. ASSUME UNCHANGED <<seat, roster, names, settling, asked, shown, forgot>>,
             UNCHANGED Guest!books
      PROVE  PublisherKept'
  BY <1>1, <1>2, BooksStay DEF PublisherKept, RostersOK, Painted
<1>3. _alias_counter \in Nat /\ (Guest!CanNumber => _alias_counter + MaxGuests <= MaxAlias)
  BY <1>1 DEF PublisherKept, BooksKept, Guest!Books, Guest!CanNumber, GuestBounds
<1>4. CASE UNCHANGED Guest!guestVars
  <2>1. GuestLineOK'
    BY <1>1, <1>4 DEF Guest!guestVars, Guest!link, GuestLineOK
  <2> QED
    BY <1>2, <1>4, <2>1 DEF Guest!guestVars, GuestInv, PublisherKept
<1>5. CASE Guest!GuestEnters
  <2>1. guests' \in Guest!Vid /\ guests' \in 0 .. MaxGuests
    BY <1>1, <1>5 DEF Guest!GuestEnters, GuestLineOK, Guest!Vid, GuestBounds
  <2>2. [kind |-> "joined", vid |-> guests'] \in Guest!LineFrame
    BY <2>1 DEF Guest!LineFrame
  <2>3. GuestLineOK'
    BY <1>1, <1>5, <2>1, <2>2, Says DEF Guest!GuestEnters, GuestLineOK
  <2>4. PublisherKept'
    BY <1>2, <1>5 DEF Guest!GuestEnters, Guest!Publisher
  <2> QED
    BY <2>3, <2>4 DEF GuestInv, PublisherKept
<1>6. ASSUME NEW v \in Guest!Vid, Guest!GuestSpeaks(v) \/ Guest!GuestLeaves(v)
      PROVE  GuestInv'
  <2>1. PICK e \in Guest!LineFrame : Guest!Say(e)
    BY <1>6 DEF Guest!GuestSpeaks, Guest!GuestLeaves, Guest!LineFrame
  <2>2. GuestLineOK'
    BY <1>1, <1>6, <2>1, Says DEF Guest!GuestSpeaks, Guest!GuestLeaves, GuestLineOK
  <2>3. PublisherKept'
    BY <1>2, <1>6 DEF Guest!GuestSpeaks, Guest!GuestLeaves, Guest!Publisher
  <2> QED
    BY <2>2, <2>3 DEF GuestInv, PublisherKept
<1>7. CASE Guest!LinkLost \/ Guest!LinkBack
  <2>1. GuestLineOK'
    <3>1. <<>> \in Seq(Guest!LineFrame) /\ Len(<<>>) <= LineMax
      BY DEF GuestBounds
    <3> QED
      BY <1>1, <1>7, <3>1 DEF Guest!LinkLost, Guest!LinkBack, GuestLineOK
  <2>2. PublisherKept'
    BY <1>2, <1>7 DEF Guest!LinkLost, Guest!LinkBack, Guest!Publisher
  <2> QED
    BY <2>1, <2>2 DEF GuestInv, PublisherKept
<1>8. CASE Guest!TakeLine
  BY <1>1, <1>8, GuestTakes
<1>9. ASSUME NEW v \in Guest!Vid, Guest!Settle(v)
      PROVE  GuestInv'
  <2>1. GuestLineOK'
    BY <1>1, <1>9 DEF Guest!Settle, Guest!link, GuestLineOK
  <2>2. /\ Guest!Broadcast(roster, Guest!Books) /\ Guest!CanNumber
             /\ settling' = settling \ {v} /\ v \in settling
        /\ UNCHANGED <<seat, roster, names, asked>>
    BY <1>9 DEF Guest!Settle
  <2>3. PublisherKept'
    BY <1>1, <1>3, <2>2, Broadcasts DEF PublisherKept, RostersOK, Painted
  <2> QED
    BY <2>1, <2>3 DEF GuestInv, PublisherKept
<1>10. CASE Guest!Repaint
  <2>1. GuestLineOK'
    BY <1>1, <1>10 DEF Guest!Repaint, Guest!link, GuestLineOK
  <2>2. /\ Guest!Broadcast(roster, Guest!Books) /\ Guest!CanNumber
        /\ UNCHANGED <<seat, roster, names, settling, asked>>
    BY <1>10 DEF Guest!Repaint
  <2>3. PublisherKept'
    BY <1>1, <1>3, <2>2, Broadcasts DEF PublisherKept, RostersOK, Painted
  <2> QED
    BY <2>1, <2>3 DEF GuestInv, PublisherKept
<1>11. ASSUME NEW v \in Guest!Vid, Guest!Answer(v)
       PROVE  GuestInv'
  <2>1. GuestLineOK'
    BY <1>1, <1>11 DEF Guest!Answer, Guest!link, GuestLineOK
  <2>2. UNCHANGED <<seat, roster, names, settling, shown, forgot>> /\ UNCHANGED Guest!books
        /\ asked' = asked \ {v}
    BY <1>11 DEF Guest!Answer
  <2>3. PublisherKept'
    BY <1>1, <2>2, BooksStay DEF PublisherKept, RostersOK, Painted
  <2> QED
    BY <2>1, <2>3 DEF GuestInv, PublisherKept
<1>12. CASE Guest!RoomBreaks
  <2>1. GuestLineOK'
    BY <1>1, <1>12 DEF Guest!RoomBreaks, Guest!link, GuestLineOK
  <2>2. UNCHANGED <<roster, names, settling, asked, shown, forgot>> /\ UNCHANGED Guest!books
        /\ seat' \in {"broken", "down"}
    BY <1>1, <1>12 DEF Guest!RoomBreaks, PublisherKept, RostersOK
  <2>3. PublisherKept'
    BY <1>1, <2>2, BooksStay DEF PublisherKept, RostersOK, Painted
  <2> QED
    BY <2>1, <2>3 DEF GuestInv, PublisherKept
<1>13. CASE Guest!RoomBack
  <2>1. GuestLineOK'
    BY <1>1, <1>13 DEF Guest!RoomBack, Guest!link, GuestLineOK
  <2>2. /\ Guest!Keep(Guest!NumberAll(Guest!Books, roster)) /\ Guest!CanNumber
             /\ seat' = "up" /\ shown' = roster
        /\ forgot' = FALSE /\ UNCHANGED <<roster, names, settling, asked>>
    BY <1>13 DEF Guest!RoomBack
  <2>3. BooksKept(Guest!Books, _alias_counter)'
    BY <1>1, <1>3, <2>2, NumbersAll, BooksMove DEF PublisherKept
  <2>4. PublisherKept'
    BY <1>1, <2>2, <2>3 DEF PublisherKept, RostersOK, Painted
  <2> QED
    BY <2>1, <2>4 DEF GuestInv, PublisherKept
<1>14. CASE Guest!NewRoom
  <2>1. GuestLineOK'
    BY <1>1, <1>14 DEF Guest!NewRoom, GuestLineOK
  <2>2. /\ alias' = <<>> /\ UNCHANGED <<_alias_counter, told>> /\ forgot' = TRUE
        /\ roster' = Guest!NoGuests /\ settling' = {} /\ asked' = {}
        /\ UNCHANGED <<seat, names, shown>>
    BY <1>14 DEF Guest!NewRoom, Guest!ForgetNumbers
  <2>3. BooksKept(Guest!Books, _alias_counter)'
    <3>1. <<>> \in Seq(Guest!Vid \X (1 .. MaxAlias)) /\ Len(<<>>) <= _ALIAS_MAX
          /\ DOMAIN <<>> = {}
      BY DEF GuestBounds
    <3> QED
      BY <1>1, <2>2, <3>1 DEF PublisherKept, BooksKept, Guest!Books
  <2>4. Guest!NoGuests \in [Guest!Vid -> Handles]
    BY DEF Guest!NoGuests, Handles
  <2>5. PublisherKept'
    BY <1>1, <2>2, <2>3, <2>4 DEF PublisherKept, RostersOK, Painted
  <2> QED
    BY <2>1, <2>5 DEF GuestInv, PublisherKept
<1> QED
  BY <1>4, <1>5, <1>6, <1>7, <1>8, <1>9, <1>10, <1>11, <1>12, <1>13, <1>14 DEF Guest!Next

----------------------------------------------------------------------------
\* WebDownloads: the constants that the proof rests on, and the fields of an
\* accepted file.
DownBounds == Chunks \in Nat
Entry == [viewers : SUBSET Viewers, started : BOOLEAN, buf : Seq(Nat),
          kept : BOOLEAN, complete : BOOLEAN]

FilesTyped ==
    /\ _web_ft \in [Files -> Entry]
    /\ sent \in [Files -> 0 .. Down!NotBegun]
    /\ heard \in [Files -> Seq(Nat)]
    /\ got \in [Files -> [Viewers -> Seq(Nat)]]
    /\ finished \in [Files -> SUBSET Viewers]

\* Of an accepted file: nobody has anything before the first chunk; what is
\* retained is what was heard; a viewer has nothing, or all that was heard, and
\* then the rest reaches it, too, or there is none; who is finished has it all,
\* and then the sender has ended.
Served(ft, h, g, fin, n) ==
    /\ ~ ft.started => h = <<>>
    /\ ft.kept => ft.buf = h
    /\ \A v \in Viewers : g[v] = <<>> \/ (g[v] = h /\ (v \in ft.viewers \/ ft.complete))
    /\ \A v \in ft.viewers : g[v] = h
    /\ \A v \in fin : g[v] = h /\ ft.complete
    /\ ft.complete => n = Chunks + 1
AllServed == \A f \in Files : Down!Known(f) =>
    Served(_web_ft[f], heard[f], got[f], finished[f], sent[f])

DownInv == FilesTyped /\ AllServed

LEMMA DownStart ==
    ASSUME DownBounds, Down!Init
    PROVE  DownInv
BY DEF DownBounds, Down!Init, DownInv, FilesTyped, Entry, AllServed, Down!Known, Down!None,
       Down!NotBegun

LEMMA DownShows ==
    ASSUME DownInv
    PROVE  Down!DownloadsAlike
<1> SUFFICES ASSUME NEW f \in Files, Down!Known(f)
             PROVE  /\ \A v \in finished[f] : got[f][v] = heard[f]
                    /\ \A v \in Viewers : Down!IsPrefix(got[f][v], heard[f])
  BY DEF Down!DownloadsAlike
<1>1. Served(_web_ft[f], heard[f], got[f], finished[f], sent[f])
  BY DEF DownInv, AllServed
<1>2. heard[f] \in Seq(Nat)
  BY DEF DownInv, FilesTyped
<1>3. \A q \in Seq(Nat) : Down!IsPrefix(<<>>, q) /\ Down!IsPrefix(q, q)
  BY DEF Down!IsPrefix
<1> QED
  BY <1>1, <1>2, <1>3 DEF Served

\* A step that leaves most files alone.
LEMMA OthersServed ==
    ASSUME AllServed, NEW f \in Files,
           \A g \in Files \ {f} : /\ _web_ft'[g] = _web_ft[g] \/ _web_ft'[g] = Down!None
                                  /\ heard'[g] = heard[g] /\ got'[g] = got[g]
                                  /\ finished'[g] = finished[g]
                                  /\ sent'[g] = sent[g]
                                     \/ (sent[g] = Down!NotBegun /\ sent'[g] = 0),
           DownBounds,
           _web_ft'[f] # Down!None =>
               Served(_web_ft'[f], heard'[f], got'[f], finished'[f], sent'[f])
    PROVE  AllServed'
<1>1. ASSUME NEW g \in Files, g # f, _web_ft'[g] # Down!None
      PROVE  Served(_web_ft'[g], heard'[g], got'[g], finished'[g], sent'[g])
  <2>1. /\ Down!Known(g) /\ _web_ft'[g] = _web_ft[g] /\ heard'[g] = heard[g]
             /\ got'[g] = got[g]
        /\ finished'[g] = finished[g]
        /\ sent'[g] = sent[g] \/ (sent[g] = Down!NotBegun /\ sent'[g] = 0)
    BY <1>1 DEF Down!Known
  <2>2. Served(_web_ft[g], heard[g], got[g], finished[g], sent[g])
    BY <2>1 DEF AllServed
  <2>3. Down!NotBegun # Chunks + 1
    BY DEF Down!NotBegun, DownBounds
  <2> QED
    BY <2>1, <2>2, <2>3 DEF Served
<1> QED
  BY <1>1 DEF AllServed, Down!Known

\* What is evicted is gone, what is not is as it was.
LEMMA EvictedOrNot ==
    ASSUME NEW ft, ft \in [Files -> Entry]
    PROVE  /\ Down!Evicted(ft) \in [Files -> Entry]
           /\ \A f \in Files : Down!Evicted(ft)[f] = ft[f]
                \/ Down!Evicted(ft)[f] = Down!None
<1> DEFINE oldest(n) == {f \in {order[i] : i \in 1 .. n} : ft[f].complete /\ ft[f].kept}
           left(n) == [f \in Files |-> IF f \in oldest(n) THEN Down!None ELSE ft[f]]
           fits(n) == Down!Held(left(n)) <= WEB_FT_RETAIN_TOTAL
           cut == CHOOSE n \in 0 .. Len(order) :
                      /\ fits(n) \/ n = Len(order)
                      /\ \A m \in 0 .. n - 1 : ~ fits(m)
<1>1. Down!Evicted(ft) = left(cut)
  BY DEF Down!Evicted
<1> HIDE DEF cut, oldest
<1>2. Down!None \in Entry
  BY DEF Down!None, Entry
<1> QED
  BY <1>1, <1>2

\* A step that touches no accepted file.
LEMMA FilesRest ==
    ASSUME DownBounds, DownInv, UNCHANGED <<_web_ft, heard, got, finished>>,
           sent' \in [Files -> 0 .. Down!NotBegun],
           \A g \in Files : sent'[g] = sent[g] \/ (sent[g] = Down!NotBegun /\ sent'[g] = 0)
                            \/ ~ _web_ft[g].complete
    PROVE  DownInv'
<1>1. FilesTyped'
  BY DEF DownInv, FilesTyped
<1>2. Down!NotBegun # Chunks + 1
  BY DEF Down!NotBegun, DownBounds
<1>3. ASSUME NEW g \in Files, Down!Known(g)
      PROVE  Served(_web_ft[g], heard[g], got[g], finished[g], sent'[g])
  BY <1>2, <1>3 DEF DownInv, AllServed, Served
<1> QED
  BY <1>1, <1>3 DEF DownInv, AllServed, Down!Known

LEMMA BegunOnce ==
    ASSUME DownBounds, FilesTyped, NEW f \in Files
    PROVE  /\ Down!Begun(f) \in [Files -> 0 .. Down!NotBegun]
           /\ \A g \in Files : Down!Begun(f)[g] = sent[g]
                \/ (sent[g] = Down!NotBegun /\ Down!Begun(f)[g] = 0)
BY DEF Down!Begun, FilesTyped, Down!NotBegun, DownBounds

LEMMA ChunkKeeps ==
    ASSUME DownBounds, DownInv, NEW f \in Files, Down!Known(f), sent[f] \in 0 .. Chunks,
           NEW n \in Nat, Down!ChunkIn(f, n), sent' = [sent EXCEPT ![f] = @ + 1],
           sent[f] < Chunks
    PROVE  DownInv'
<1> DEFINE st == _web_ft[f]
           keeps == st.kept /\ Len(st.buf) + 1 <= WEB_FT_RETAIN_MAX
<1>1. /\ _web_ft' = [_web_ft EXCEPT ![f].started = TRUE, ![f].kept = keeps,
                                    ![f].buf = IF keeps THEN Append(@, n) ELSE <<>>]
      /\ heard' = [heard EXCEPT ![f] = Append(@, n)]
      /\ got' = [got EXCEPT ![f] = [v \in Viewers |->
                    IF v \in st.viewers THEN Append(@[v], n) ELSE @[v]]]
      /\ finished' = finished
  BY DEF Down!ChunkIn
<1>2. st \in Entry /\ keeps \in BOOLEAN /\ st.buf \in Seq(Nat)
      /\ heard[f] \in Seq(Nat) /\ got[f] \in [Viewers -> Seq(Nat)]
  <2>1. st \in Entry /\ heard[f] \in Seq(Nat) /\ got[f] \in [Viewers -> Seq(Nat)]
    BY DEF DownInv, FilesTyped
  <2> QED
    BY <2>1 DEF Entry
<1> HIDE DEF keeps
<1>3. /\ _web_ft'[f] = [st EXCEPT !.started = TRUE, !.kept = keeps,
                                  !.buf = IF keeps THEN Append(@, n) ELSE <<>>]
      /\ \A g \in Files \ {f} : _web_ft'[g] = _web_ft[g]
      /\ DOMAIN _web_ft' = Files /\ _web_ft' = [g \in Files |-> _web_ft'[g]]
  BY <1>1 DEF DownInv, FilesTyped
<1>4. /\ _web_ft'[f].started = TRUE /\ _web_ft'[f].kept = keeps
      /\ _web_ft'[f].viewers = st.viewers /\ _web_ft'[f].complete = st.complete
      /\ _web_ft'[f].buf = IF keeps THEN Append(st.buf, n) ELSE <<>>
      /\ _web_ft'[f] \in Entry
  <2> DEFINE more == IF keeps THEN Append(st.buf, n) ELSE <<>>
  <2>1. more \in Seq(Nat)
    BY <1>2
  <2>2. _web_ft'[f] = [st EXCEPT !.started = TRUE, !.kept = keeps, !.buf = more]
    BY <1>3
  <2> HIDE DEF more
  <2>3. /\ _web_ft'[f].started = TRUE /\ _web_ft'[f].kept = keeps
        /\ _web_ft'[f].viewers = st.viewers /\ _web_ft'[f].complete = st.complete
        /\ _web_ft'[f].buf = more /\ _web_ft'[f] \in Entry
    BY <1>2, <2>1, <2>2 DEF Entry
  <2> QED
    BY <2>3 DEF more
<1>5. _web_ft' \in [Files -> Entry]
  BY <1>3, <1>4 DEF DownInv, FilesTyped
<1>6. /\ heard'[f] = Append(heard[f], n) /\ heard' \in [Files -> Seq(Nat)]
      /\ \A g \in Files \ {f} : heard'[g] = heard[g]
  BY <1>1, <1>2 DEF DownInv, FilesTyped
<1>7. /\ \A v \in Viewers : got'[f][v] = IF v \in st.viewers THEN Append(got[f][v], n)
                                         ELSE got[f][v]
      /\ got' \in [Files -> [Viewers -> Seq(Nat)]]
      /\ \A g \in Files \ {f} : got'[g] = got[g]
  BY <1>1, <1>2 DEF DownInv, FilesTyped
<1>8. /\ sent'[f] = sent[f] + 1 /\ sent' \in [Files -> 0 .. Down!NotBegun]
      /\ \A g \in Files \ {f} : sent'[g] = sent[g]
  BY DEF DownInv, FilesTyped, Down!NotBegun, DownBounds
<1>9. Served(st, heard[f], got[f], finished[f], sent[f])
  BY DEF DownInv, AllServed
<1>10. ~ st.complete /\ finished[f] = {}
  <2>1. ~ st.complete
    BY <1>9 DEF Served, DownBounds
  <2>2. \A v : v \notin finished[f]
    BY <1>9, <2>1 DEF Served
  <2> QED
    BY <2>1, <2>2, <1>2 DEF Entry
<1>11. keeps => st.kept
  BY DEF keeps
<1>12. Served(_web_ft'[f], heard'[f], got'[f], finished'[f], sent'[f])
  <2>1. st.viewers \subseteq Viewers
    BY <1>2 DEF Entry
  <2>2. \A v \in st.viewers : got'[f][v] = heard'[f]
    BY <1>6, <1>7, <1>9, <2>1 DEF Served
  <2>3. \A v \in Viewers \ st.viewers : got'[f][v] = <<>>
    BY <1>7, <1>9, <1>10 DEF Served
  <2>4. keeps => _web_ft'[f].buf = heard'[f]
    BY <1>4, <1>6, <1>9, <1>11 DEF Served
  <2>5. finished'[f] = {}
    BY <1>1, <1>10
  <2> QED
    BY <1>4, <1>10, <2>1, <2>2, <2>3, <2>4, <2>5 DEF Served
<1>13. AllServed'
  BY <1>1, <1>3, <1>6, <1>7, <1>8, <1>12, OthersServed DEF DownInv
<1> QED
  BY <1>1, <1>5, <1>6, <1>7, <1>8, <1>13 DEF DownInv, FilesTyped

LEMMA DoneKeeps ==
    ASSUME DownBounds, DownInv, NEW f \in Files, Down!Known(f), sent[f] \in 0 .. Chunks,
           Down!DoneIn(f), sent' = [sent EXCEPT ![f] = Chunks + 1]
    PROVE  DownInv'
<1> DEFINE st == _web_ft[f]
           done == [_web_ft EXCEPT ![f].complete = TRUE]
           void == [_web_ft EXCEPT ![f] = Down!None]
<1>1. /\ finished' = [finished EXCEPT ![f] = @ \cup st.viewers]
      /\ heard' = heard /\ got' = got
      /\ _web_ft' = IF ~ st.kept THEN void ELSE Down!Evicted(done)
  BY DEF Down!DoneIn, Down!Keep
<1>2. st \in Entry /\ _web_ft \in [Files -> Entry] /\ Down!None \in Entry
  BY DEF DownInv, FilesTyped, Down!None, Entry
<1>3. /\ done \in [Files -> Entry] /\ \A g \in Files \ {f} : done[g] = _web_ft[g]
      /\ done[f] = [st EXCEPT !.complete = TRUE]
  BY <1>2 DEF Entry
<1>4. /\ void \in [Files -> Entry] /\ \A g \in Files \ {f} : void[g] = _web_ft[g]
      /\ void[f] = Down!None
  BY <1>2
<1> HIDE DEF done, void
<1>5. /\ _web_ft' \in [Files -> Entry]
      /\ \A g \in Files \ {f} : _web_ft'[g] = _web_ft[g] \/ _web_ft'[g] = Down!None
      /\ _web_ft'[f] = done[f] \/ _web_ft'[f] = Down!None
  BY <1>1, <1>3, <1>4, EvictedOrNot
<1>6. st.viewers \subseteq Viewers
  BY <1>2 DEF Entry
<1>7. /\ finished'[f] = finished[f] \cup st.viewers
      /\ finished' \in [Files -> SUBSET Viewers]
      /\ \A g \in Files \ {f} : finished'[g] = finished[g]
  BY <1>1, <1>6 DEF DownInv, FilesTyped
<1>8. /\ sent'[f] = Chunks + 1 /\ sent' \in [Files -> 0 .. Down!NotBegun]
      /\ \A g \in Files \ {f} : sent'[g] = sent[g]
  BY DEF DownInv, FilesTyped, Down!NotBegun, DownBounds
<1>9. Served(st, heard[f], got[f], finished[f], sent[f])
  BY DEF DownInv, AllServed
<1>10. /\ done[f].complete = TRUE /\ done[f].viewers = st.viewers /\ done[f].buf = st.buf
       /\ done[f].started = st.started /\ done[f].kept = st.kept
  BY <1>2, <1>3 DEF Entry
<1>11. Served(done[f], heard[f], got[f], finished'[f], sent'[f])
  BY <1>7, <1>8, <1>9, <1>10 DEF Served
<1>12. AllServed'
  BY <1>1, <1>5, <1>7, <1>8, <1>11, OthersServed DEF DownInv
<1> QED
  BY <1>1, <1>5, <1>7, <1>8, <1>12 DEF DownInv, FilesTyped

LEMMA SendKeeps ==
    ASSUME DownBounds, DownInv, NEW f \in Files, Down!Send(f)
    PROVE  DownInv'
<1> DEFINE next == [sent EXCEPT ![f] = @ + 1]
           last == [sent EXCEPT ![f] = Chunks + 1]
<1>1. sent[f] \in 0 .. Chunks /\ sent[f] + 1 \in Nat
  BY DEF Down!Send, DownBounds
<1>2. CASE seated /\ Down!Known(f)
  BY <1>1, <1>2, ChunkKeeps, DoneKeeps DEF Down!Send, Down!Follows
<1>3. CASE ~ (seated /\ Down!Known(f))
  <2>1. UNCHANGED <<_web_ft, heard, got, finished>> /\ (sent' = next \/ sent' = last)
    BY <1>1, <1>3 DEF Down!Send, Down!Follows, Down!traces
  <2>2. /\ sent' \in [Files -> 0 .. Down!NotBegun]
        /\ \A g \in Files \ {f} : sent'[g] = sent[g]
    <3>1. sent[f] + 1 \in 0 .. Down!NotBegun /\ Chunks + 1 \in 0 .. Down!NotBegun
      BY <1>1 DEF Down!NotBegun, DownBounds
    <3>2. sent \in [Files -> 0 .. Down!NotBegun]
      BY DEF DownInv, FilesTyped
    <3> QED
      BY <2>1, <3>1, <3>2
  <2>3. ~ _web_ft[f].complete
    <3>1. CASE Down!Known(f)
      BY <1>1, <3>1 DEF DownInv, AllServed, Served, DownBounds
    <3>2. CASE ~ Down!Known(f)
      BY <3>2 DEF Down!Known, Down!None
    <3> QED
      BY <3>1, <3>2
  <2> QED
    BY <2>1, <2>2, <2>3, FilesRest
<1> QED
  BY <1>2, <1>3

\* The browsers answer.
LEMMA FirstKeeps ==
    ASSUME DownBounds, DownInv, NEW v \in Viewers, NEW f \in Files, Down!AcceptFirst(v, f)
    PROVE  DownInv'
<1> DEFINE new == [Down!None EXCEPT !.viewers = {v}, !.kept = TRUE]
<1>1. /\ _web_ft' = [_web_ft EXCEPT ![f] = new]
      /\ sent' = sent \/ sent' = Down!Begun(f)
      /\ heard' = [heard EXCEPT ![f] = <<>>]
      /\ got' = [got EXCEPT ![f] = [w \in Viewers |-> <<>>]]
      /\ finished' = [finished EXCEPT ![f] = {}]
  BY DEF Down!AcceptFirst
<1>2. /\ new \in Entry /\ new.viewers = {v} /\ ~ new.started /\ new.buf = <<>>
      /\ ~ new.complete
  <2>1. /\ Down!None \in Entry /\ ~ Down!None.started /\ Down!None.buf = <<>>
             /\ ~ Down!None.complete
    BY DEF Down!None, Entry
  <2> QED
    BY <2>1 DEF Entry
<1> HIDE DEF new
<1>3. /\ _web_ft'[f] = new /\ heard'[f] = <<>> /\ finished'[f] = {}
      /\ \A w \in Viewers : got'[f][w] = <<>>
      /\ _web_ft' \in [Files -> Entry] /\ heard' \in [Files -> Seq(Nat)]
      /\ got' \in [Files -> [Viewers -> Seq(Nat)]]
           /\ finished' \in [Files -> SUBSET Viewers]
  BY <1>1, <1>2 DEF DownInv, FilesTyped
<1>4. \A g \in Files \ {f} : /\ _web_ft'[g] = _web_ft[g] /\ heard'[g] = heard[g]
                              /\ got'[g] = got[g] /\ finished'[g] = finished[g]
  BY <1>1 DEF DownInv, FilesTyped
<1>5. /\ sent' \in [Files -> 0 .. Down!NotBegun]
      /\ \A g \in Files : sent'[g] = sent[g] \/ (sent[g] = Down!NotBegun /\ sent'[g] = 0)
  BY <1>1, BegunOnce DEF DownInv, FilesTyped
<1>6. Served(_web_ft'[f], heard'[f], got'[f], finished'[f], sent'[f])
  BY <1>2, <1>3 DEF Served
<1>7. AllServed'
  BY <1>4, <1>5, <1>6, OthersServed DEF DownInv
<1> QED
  BY <1>3, <1>5, <1>7 DEF DownInv, FilesTyped

LEMMA EarlyKeeps ==
    ASSUME DownBounds, DownInv, NEW v \in Viewers, NEW f \in Files, Down!AcceptEarly(v, f)
    PROVE  DownInv'
<1> DEFINE st == _web_ft[f]
<1>1. /\ _web_ft' = [_web_ft EXCEPT ![f].viewers = @ \cup {v}]
      /\ sent' = sent /\ heard' = heard /\ got' = got /\ finished' = finished
      /\ Down!Known(f) /\ ~ st.started
  BY DEF Down!AcceptEarly, Down!traces
<1>2. /\ st \in Entry /\ got[f] \in [Viewers -> Seq(Nat)]
      /\ Served(st, heard[f], got[f], finished[f], sent[f])
  BY <1>1 DEF DownInv, FilesTyped, AllServed
<1>3. _web_ft'[f] = [st EXCEPT !.viewers = @ \cup {v}]
      /\ \A g \in Files \ {f} : _web_ft'[g] = _web_ft[g]
  BY <1>1 DEF DownInv, FilesTyped
<1> HIDE DEF st
<1>4. /\ _web_ft'[f].viewers = st.viewers \cup {v} /\ _web_ft'[f].started = st.started
      /\ _web_ft'[f].kept = st.kept /\ _web_ft'[f].buf = st.buf
      /\ _web_ft'[f].complete = st.complete /\ _web_ft'[f] \in Entry
  BY <1>2, <1>3 DEF Entry
<1>5. _web_ft' \in [Files -> Entry]
  BY <1>1, <1>4 DEF DownInv, FilesTyped
<1>6. Served(_web_ft'[f], heard[f], got[f], finished[f], sent[f])
  <2>1. \A w \in Viewers : got[f][w] = heard[f]
    BY <1>1, <1>2 DEF Served, st
  <2> QED
    BY <1>2, <1>4, <2>1 DEF Served, Entry
<1>7. AllServed'
  BY <1>1, <1>3, <1>6, OthersServed DEF DownInv
<1> QED
  BY <1>1, <1>5, <1>7 DEF DownInv, FilesTyped

LEMMA LateKeeps ==
    ASSUME DownBounds, DownInv, NEW v \in Viewers, NEW f \in Files, Down!AcceptLate(v, f)
    PROVE  DownInv'
<1> DEFINE st == _web_ft[f]
<1>1. Down!Known(f) /\ st.started /\ sent' = sent
  BY DEF Down!AcceptLate
<1>2. /\ st \in Entry /\ heard[f] \in Seq(Nat) /\ got[f] \in [Viewers -> Seq(Nat)]
      /\ Served(st, heard[f], got[f], finished[f], sent[f])
  BY <1>1 DEF DownInv, FilesTyped, AllServed
<1>3. CASE ~ st.kept
  <2>1. UNCHANGED <<_web_ft, heard, got, finished>>
    BY <1>3 DEF Down!AcceptLate, Down!traces
  <2> QED
    BY <1>1, <2>1, FilesRest DEF DownInv, FilesTyped
<1>4. CASE st.kept
  <2>1. got' = [got EXCEPT ![f][v] = heard[f]] /\ heard' = heard
    BY <1>2, <1>4 DEF Down!AcceptLate, Served
  <2>2. /\ got'[f][v] = heard[f] /\ \A w \in Viewers \ {v} : got'[f][w] = got[f][w]
        /\ \A g \in Files \ {f} : got'[g] = got[g]
        /\ got' \in [Files -> [Viewers -> Seq(Nat)]]
    BY <1>2, <2>1 DEF DownInv, FilesTyped
  <2>3. CASE st.complete
    <3>1. finished' = [finished EXCEPT ![f] = @ \cup {v}] /\ _web_ft' = _web_ft
      BY <1>4, <2>3 DEF Down!AcceptLate
    <3>2. /\ finished'[f] = finished[f] \cup {v} /\ finished' \in [Files -> SUBSET Viewers]
          /\ \A g \in Files \ {f} : finished'[g] = finished[g]
      BY <3>1 DEF DownInv, FilesTyped
    <3>3. st.viewers \subseteq Viewers /\ finished[f] \subseteq Viewers
      BY <1>2 DEF DownInv, FilesTyped, Entry
    <3>4. Served(st, heard[f], got'[f], finished'[f], sent[f])
      BY <1>1, <1>2, <2>2, <2>3, <3>2, <3>3 DEF Served
    <3>5. AllServed'
      BY <1>1, <2>1, <2>2, <3>1, <3>2, <3>4, OthersServed DEF DownInv
    <3> QED
      BY <1>1, <2>1, <2>2, <3>1, <3>2, <3>5 DEF DownInv, FilesTyped
  <2>4. CASE ~ st.complete
    <3>1. _web_ft' = [_web_ft EXCEPT ![f].viewers = @ \cup {v}] /\ finished' = finished
      BY <1>4, <2>4 DEF Down!AcceptLate
    <3>2. _web_ft'[f] = [st EXCEPT !.viewers = @ \cup {v}]
          /\ \A g \in Files \ {f} : _web_ft'[g] = _web_ft[g]
      BY <3>1 DEF DownInv, FilesTyped
    <3> HIDE DEF st
    <3>3. /\ _web_ft'[f].viewers = st.viewers \cup {v} /\ _web_ft'[f].started = st.started
          /\ _web_ft'[f].kept = st.kept /\ _web_ft'[f].buf = st.buf
          /\ _web_ft'[f].complete = st.complete /\ _web_ft'[f] \in Entry
      BY <1>2, <3>2 DEF Entry
    <3>4. _web_ft' \in [Files -> Entry]
      BY <3>1, <3>3 DEF DownInv, FilesTyped
    <3>5. st.viewers \subseteq Viewers /\ finished[f] \subseteq Viewers
      BY <1>2 DEF DownInv, FilesTyped, Entry
    <3>6. Served(_web_ft'[f], heard[f], got'[f], finished[f], sent[f])
      BY <1>1, <1>2, <2>2, <2>4, <3>3, <3>5 DEF Served
    <3>7. AllServed'
      BY <1>1, <2>1, <2>2, <3>1, <3>2, <3>6, OthersServed DEF DownInv
    <3> QED
      BY <1>1, <2>1, <2>2, <3>1, <3>4, <3>7 DEF DownInv, FilesTyped
  <2> QED
    BY <2>3, <2>4
<1> QED
  BY <1>3, <1>4

LEMMA DownStep ==
    ASSUME DownBounds, DownInv, [Down!Next]_(Down!fileVars)
    PROVE  DownInv'
<1>1. ASSUME NEW f \in Files, Down!MemberAccepts(f) PROVE DownInv'
  <2>1. UNCHANGED <<_web_ft, heard, got, finished>> /\ sent' = Down!Begun(f)
    BY <1>1 DEF Down!MemberAccepts, Down!web, Down!traces
  <2> QED
    BY <2>1, BegunOnce, FilesRest DEF DownInv
<1>2. ASSUME UNCHANGED <<_web_ft, sent, heard, got, finished>> PROVE DownInv'
  BY <1>2, FilesRest DEF DownInv, FilesTyped
<1>3. ASSUME NEW f \in Files, Down!Offer(f) PROVE DownInv'
  BY <1>2, <1>3 DEF Down!Offer, Down!traces
<1>4. ASSUME NEW v \in Viewers, NEW f \in Files,
             \/ Down!AcceptFirst(v, f) \/ Down!AcceptEarly(v, f) \/ Down!AcceptLate(v, f)
             \/ Down!Decline(v, f)
      PROVE  DownInv'
  <2>1. CASE Down!Decline(v, f)
    BY <1>2, <2>1 DEF Down!Decline, Down!traces
  <2> QED
    BY <1>4, <2>1, FirstKeeps, EarlyKeeps, LateKeeps
<1>5. ASSUME Down!RoomLost \/ (\E v \in Viewers : Down!SaveVm(v))
               \/ UNCHANGED Down!fileVars PROVE DownInv'
  BY <1>2, <1>5 DEF Down!RoomLost, Down!SaveVm, Down!web, Down!traces, Down!fileVars
<1> QED
  BY <1>1, <1>3, <1>4, <1>5, SendKeeps DEF Down!Next

----------------------------------------------------------------------------
(* WebDownloads: what is retained.                                         *)

\* The publisher's counts, too, are those of the library.
LEMMA SameHeld ==
    ASSUME NEW S
    PROVE  Down!Cardinality(S) = Cardinality(S)
BY DEF Cardinality, Down!Cardinality

\* The chunks that the table ft holds of the files in D; all of them, and those
\* of files that have ended.
Chunked(ft, D) == UNION {{f} \X DOMAIN ft[f].buf : f \in D}
Ended(ft) == {f \in Files : ft[f].complete}

\* Accepted files are in the order of the table, of a file too big to keep
\* nothing is kept, and those that have ended fit.
TableOrder(ft) == order \in Seq(Files)
    /\ \A f \in Files : ft[f] # Down!None => \E i \in DOMAIN order : order[i] = f
Voided(ft) == \A f \in Files : ~ ft[f].kept => ft[f].buf = <<>>
EndedFit == Cardinality(Chunked(_web_ft, Ended(_web_ft))) <= WEB_FT_RETAIN_TOTAL
RetainInv == TableOrder(_web_ft) /\ Voided(_web_ft) /\ EndedFit

RetainBound == WEB_FT_RETAIN_TOTAL \in Nat

LEMMA ChunkedFinite ==
    ASSUME NEW ft \in [Files -> Entry], TableOrder(ft)
    PROVE  IsFiniteSet(Chunked(ft, Files))
<1> DEFINE D == {order[i] : i \in DOMAIN order}
           c == [f \in Files |-> Len(ft[f].buf)]
<1>1. order \in Seq(Files) /\ DOMAIN order = 1 .. Len(order) /\ Len(order) \in Nat
  BY DEF TableOrder
<1>2. IsFiniteSet(D)
  <2>1. IsFiniteSet(1 .. Len(order))
    BY <1>1, FS_Interval
  <2>2. order \in Surjection(1 .. Len(order), D)
    BY <1>1 DEF Surjection
  <2> QED
    BY <2>1, <2>2, FS_Surjection
<1>3. D \subseteq Files
  BY <1>1
<1>4. \A f \in Files : ft[f].buf \in Seq(Nat) /\ c[f] \in Nat /\ DOMAIN ft[f].buf = 1 .. c[f]
  BY DEF Entry
<1>5. IsFiniteSet(Pieces(D, c))
  <2> HIDE DEF D, c
  <2> QED
    BY <1>2, <1>3, <1>4, PiecesFinite
<1>6. Chunked(ft, Files) \subseteq Pieces(D, c)
  <2> SUFFICES ASSUME NEW f \in Files, NEW k \in DOMAIN ft[f].buf
               PROVE  <<f, k>> \in Pieces(D, c)
    BY DEF Chunked
  <2>1. ft[f] # Down!None
    BY DEF Down!None
  <2>2. f \in D
    BY <2>1 DEF TableOrder
  <2> HIDE DEF D, c
  <2> QED
    BY <1>4, <2>2 DEF Pieces
<1> QED
  BY <1>5, <1>6, FS_Subset

\* Nothing held that has ended is changed: what has ended fits as before.
LEMMA EndedSame ==
    ASSUME \A f \in Files : /\ _web_ft'[f].complete = _web_ft[f].complete
                            /\ _web_ft[f].complete => _web_ft'[f].buf = _web_ft[f].buf,
           EndedFit
    PROVE  EndedFit'
<1>1. Ended(_web_ft') = Ended(_web_ft)
  BY DEF Ended
<1>2. Chunked(_web_ft', Ended(_web_ft')) = Chunked(_web_ft, Ended(_web_ft))
  BY <1>1 DEF Chunked, Ended
<1> QED
  BY <1>2 DEF EndedFit

LEMMA OrderedHas ==
    ASSUME NEW ft, TableOrder(ft), order' = Down!Ordered(ft), _web_ft' = ft
    PROVE  TableOrder(_web_ft)'
<1> DEFINE left == {i \in DOMAIN order : ft[order[i]] # Down!None}
<1>1. order \in Seq(Files) /\ DOMAIN order = 1 .. Len(order) /\ Len(order) \in Nat
  BY DEF TableOrder
<1>2. left \in SUBSET Nat /\ left \subseteq DOMAIN order /\ IsFiniteSet(left)
  <2>1. IsFiniteSet(1 .. Len(order))
    BY <1>1, FS_Interval
  <2>2. left \in SUBSET (1 .. Len(order))
    BY <1>1
  <2> HIDE DEF left
  <2>3. IsFiniteSet(left)
    BY <2>1, <2>2, FS_Subset
  <2>4. left \in SUBSET Nat /\ left \subseteq DOMAIN order
    BY <1>1, <2>2
  <2> QED
    BY <2>3, <2>4
<1>3. order' = [k \in 1 .. Cardinality(left) |-> order[Nth(left, k)]]
  <2> DEFINE nth(k) == CHOOSE i \in left : Down!Cardinality({j \in left : j <= i}) = k
  <2>1. order' = [k \in 1 .. Cardinality(left) |-> order[nth(k)]]
    BY SameHeld DEF Down!Ordered
  <2>2. \A k : nth(k) = Nth(left, k)
    BY SameHeld DEF Nth, Rank
  <2> HIDE DEF left, nth
  <2> QED
    BY <2>1, <2>2
<1>4. \A f \in Files : ft[f] # Down!None => \E i \in left : order[i] = f
  BY DEF TableOrder
<1> HIDE DEF left
<1>5. /\ Cardinality(left) \in Nat
      /\ \A k \in 1 .. Cardinality(left) : Nth(left, k) \in left
      /\ \A i \in left : Rank(left, i) \in 1 .. Cardinality(left)
                         /\ Nth(left, Rank(left, i)) = i
  BY <1>2, Nths
<1>6. order' \in Seq(Files)
  <2>1. ASSUME NEW k \in 1 .. Cardinality(left) PROVE order[Nth(left, k)] \in Files
    <3>1. Nth(left, k) \in DOMAIN order
      BY <1>2, <1>5
    <3> QED
      BY <1>1, <3>1
  <2> QED
    BY <1>3, <1>5, <2>1
<1>7. ASSUME NEW f \in Files, ft[f] # Down!None
      PROVE  \E k \in DOMAIN order' : order'[k] = f
  <2>1. PICK i \in left : order[i] = f
    BY <1>4, <1>7
  <2>2. Rank(left, i) \in DOMAIN order' /\ order'[Rank(left, i)] = f
    BY <1>3, <1>5, <2>1
  <2> QED
    BY <2>2
<1> QED
  BY <1>6, <1>7 DEF TableOrder

\* What is evicted makes what has ended fit.
LEMMA EvictedFit ==
    ASSUME RetainBound, NEW ft \in [Files -> Entry], TableOrder(ft), Voided(ft)
    PROVE  Cardinality(Chunked(Down!Evicted(ft), Ended(Down!Evicted(ft)))) <= WEB_FT_RETAIN_TOTAL
<1> DEFINE oldest(n) == {f \in {order[i] : i \in 1 .. n} : ft[f].complete /\ ft[f].kept}
           left(n) == [f \in Files |-> IF f \in oldest(n) THEN Down!None ELSE ft[f]]
           fits(n) == Down!Held(left(n)) <= WEB_FT_RETAIN_TOTAL
           cut == CHOOSE n \in 0 .. Len(order) :
                      /\ fits(n) \/ n = Len(order)
                      /\ \A m \in 0 .. n - 1 : ~ fits(m)
           e == Down!Evicted(ft)
<1>1. order \in Seq(Files) /\ DOMAIN order = 1 .. Len(order) /\ Len(order) \in Nat
  BY DEF TableOrder
<1>2. e = left(cut)
  BY DEF Down!Evicted
<1>3. cut \in 0 .. Len(order) /\ (fits(cut) \/ cut = Len(order))
  <2> DEFINE T == {h \in 0 .. Len(order) : fits(h) \/ h = Len(order)}
  <2> HIDE DEF fits
  <2>1. T \subseteq 0 .. Len(order) /\ Len(order) \in T
    BY <1>1
  <2>2. \A h \in 0 .. Len(order) : h \notin T => ~ fits(h)
    OBVIOUS
  <2>3. \A h \in T : fits(h) \/ h = Len(order)
    OBVIOUS
  <2> HIDE DEF T
  <2>4. PICK n \in T : \A m \in T : n <= m
    BY <1>1, <2>1, LeastNumber
  <2>5. n \in 0 .. Len(order) /\ \A m \in 0 .. n - 1 : m \in 0 .. Len(order) /\ m \notin T
    BY <1>1, <2>1, <2>4
  <2>6. \E h \in 0 .. Len(order) :
             (fits(h) \/ h = Len(order)) /\ \A m \in 0 .. h - 1 : ~ fits(m)
    BY <2>2, <2>3, <2>5, Zenon
  <2> QED
    BY <2>6
<1>4. e \in [Files -> Entry]
      /\ \A f \in Files : e[f] = ft[f] \/ e[f] = Down!None
  BY EvictedOrNot
<1>5. TableOrder(e)
  BY <1>4 DEF TableOrder
<1>6. IsFiniteSet(Chunked(e, Files))
  BY <1>4, <1>5, ChunkedFinite
<1>7. Chunked(e, Ended(e)) \in SUBSET Chunked(e, Files)
  BY DEF Chunked, Ended
<1>8. CASE fits(cut)
  <2>1. Cardinality(Chunked(e, Files)) <= WEB_FT_RETAIN_TOTAL
    BY <1>2, <1>8, SameHeld DEF Down!Held, Chunked
  <2>2. /\ Cardinality(Chunked(e, Ended(e))) <= Cardinality(Chunked(e, Files))
        /\ IsFiniteSet(Chunked(e, Ended(e)))
    BY <1>6, <1>7, FS_Subset
  <2>3. Cardinality(Chunked(e, Ended(e))) \in Nat /\ Cardinality(Chunked(e, Files)) \in Nat
    BY <1>6, <2>2, FS_CardinalityType
  <2> QED
    BY <2>1, <2>2, <2>3 DEF RetainBound
<1>9. CASE cut = Len(order)
  <2>1. ASSUME NEW f \in Ended(e) PROVE e[f].buf = <<>>
    <3>1. f \in Files /\ e[f].complete /\ e[f] # Down!None
      BY DEF Ended, Down!None
    <3>2. e[f] = ft[f] /\ ft[f].complete /\ ft[f] # Down!None
      BY <1>4, <3>1
    <3>3. PICK i \in DOMAIN order : order[i] = f
      BY <3>1, <3>2 DEF TableOrder
    <3>4. f \notin oldest(cut)
      BY <1>2, <3>1
    <3>5. ~ ft[f].kept
      BY <1>1, <1>9, <3>2, <3>3, <3>4
    <3> QED
      BY <3>1, <3>2, <3>5 DEF Voided
  <2>2. Chunked(e, Ended(e)) = {}
    BY <2>1 DEF Chunked
  <2> QED
    BY <2>2, FS_EmptySet DEF RetainBound
<1> QED
  BY <1>3, <1>8, <1>9

LEMMA RetainStart ==
    ASSUME RetainBound, Down!Init
    PROVE  RetainInv
<1>1. /\ _web_ft = [f \in Files |-> Down!None] /\ order = <<>>
      /\ ~ Down!None.complete /\ Down!None.buf = <<>>
  BY DEF Down!Init, Down!None
<1>2. Chunked(_web_ft, Ended(_web_ft)) = {}
  BY <1>1 DEF Chunked, Ended
<1>3. EndedFit
  BY <1>2, FS_EmptySet DEF EndedFit, RetainBound
<1>4. TableOrder(_web_ft) /\ Voided(_web_ft)
  BY <1>1 DEF TableOrder, Voided
<1> QED
  BY <1>3, <1>4 DEF RetainInv

\* Once no stream is running, what is retained is of files that have ended.
LEMMA RetainShows ==
    ASSUME DownInv, RetainInv
    PROVE  Down!RetentionBounded
<1> SUFFICES ASSUME \A f \in Files : Down!Known(f) => _web_ft[f].complete
             PROVE  Down!Held(_web_ft) <= WEB_FT_RETAIN_TOTAL
  BY DEF Down!RetentionBounded
<1>1. \A f \in Files : f \in Ended(_web_ft) \/ _web_ft[f].buf = <<>>
  BY DEF Ended, Down!Known, Down!None
<1>2. Chunked(_web_ft, Files) = Chunked(_web_ft, Ended(_web_ft))
  BY <1>1 DEF Chunked, Ended
<1> QED
  BY <1>2, SameHeld DEF RetainInv, EndedFit, Down!Held, Chunked

\* A step that touches at most who watches.
LEMMA RetainRests ==
    ASSUME RetainInv, order' = order,
           \A f \in Files : /\ _web_ft'[f].complete = _web_ft[f].complete
                            /\ _web_ft'[f].buf = _web_ft[f].buf
                            /\ _web_ft'[f].kept = _web_ft[f].kept
                            /\ _web_ft'[f] # Down!None => _web_ft[f] # Down!None
    PROVE  RetainInv'
<1>1. EndedFit'
  BY EndedSame DEF RetainInv
<1>2. TableOrder(_web_ft)' /\ Voided(_web_ft)'
  BY DEF RetainInv, TableOrder, Voided
<1> QED
  BY <1>1, <1>2 DEF RetainInv

LEMMA RetainChunk ==
    ASSUME DownBounds, DownInv, RetainInv, NEW f \in Files, Down!Known(f),
           sent[f] \in 0 .. Chunks, NEW n, Down!ChunkIn(f, n)
    PROVE  RetainInv'
<1> DEFINE st == _web_ft[f]
           keeps == st.kept /\ Len(st.buf) + 1 <= WEB_FT_RETAIN_MAX
           more == IF keeps THEN Append(st.buf, n) ELSE <<>>
<1>1. /\ _web_ft' = [_web_ft EXCEPT ![f].started = TRUE, ![f].kept = keeps,
                                    ![f].buf = IF keeps THEN Append(@, n) ELSE <<>>]
      /\ order' = order
  BY DEF Down!ChunkIn
<1>2. st \in Entry /\ _web_ft \in [Files -> Entry]
  BY DEF DownInv, FilesTyped
<1>3. /\ _web_ft'[f] = [st EXCEPT !.started = TRUE, !.kept = keeps, !.buf = more]
      /\ \A g \in Files \ {f} : _web_ft'[g] = _web_ft[g]
  BY <1>1, <1>2
<1> HIDE DEF keeps
<1>4. ~ keeps => more = <<>>
  OBVIOUS
<1> HIDE DEF more
<1>5. _web_ft'[f].kept = keeps /\ _web_ft'[f].buf = more
      /\ _web_ft'[f].complete = st.complete
  BY <1>2, <1>3 DEF Entry
<1>6. ~ st.complete
  BY DEF DownInv, AllServed, Served, DownBounds
<1>7. EndedFit'
  <2>1. ASSUME NEW g \in Files
        PROVE  /\ _web_ft'[g].complete = _web_ft[g].complete
               /\ _web_ft[g].complete => _web_ft'[g].buf = _web_ft[g].buf
    BY <1>3, <1>5, <1>6
  <2> QED
    BY <2>1, EndedSame DEF RetainInv
<1>8. Voided(_web_ft)'
  BY <1>3, <1>4, <1>5 DEF RetainInv, Voided
<1>9. TableOrder(_web_ft)'
  BY <1>1, <1>3 DEF RetainInv, TableOrder, Down!Known
<1> QED
  BY <1>7, <1>8, <1>9 DEF RetainInv

LEMMA RetainDone ==
    ASSUME DownBounds, RetainBound, DownInv, RetainInv, NEW f \in Files, Down!Known(f),
           sent[f] \in 0 .. Chunks, Down!DoneIn(f)
    PROVE  RetainInv'
<1> DEFINE st == _web_ft[f]
           done == [_web_ft EXCEPT ![f].complete = TRUE]
           void == [_web_ft EXCEPT ![f] = Down!None]
           ft == IF ~ st.kept THEN void ELSE Down!Evicted(done)
<1>1. _web_ft' = ft /\ order' = Down!Ordered(ft)
  BY DEF Down!DoneIn, Down!Keep
<1>2. st \in Entry /\ _web_ft \in [Files -> Entry]
  BY DEF DownInv, FilesTyped
<1>3. /\ done \in [Files -> Entry] /\ \A g \in Files \ {f} : done[g] = _web_ft[g]
      /\ done[f] = [st EXCEPT !.complete = TRUE]
  BY <1>2 DEF Entry
<1>4. done[f].kept = st.kept /\ done[f].buf = st.buf
  BY <1>2, <1>3 DEF Entry
<1>5. void[f] = Down!None /\ \A g \in Files \ {f} : void[g] = _web_ft[g]
  BY <1>2
<1>6. Down!None.buf = <<>> /\ ~ Down!None.complete
  BY DEF Down!None
<1>7. ~ st.complete
  BY DEF DownInv, AllServed, Served, DownBounds
<1> HIDE DEF done, void
<1>8. TableOrder(done) /\ Voided(done)
  <2>1. TableOrder(done)
    BY <1>3 DEF RetainInv, TableOrder, Down!Known
  <2>2. Voided(done)
    BY <1>3, <1>4 DEF RetainInv, Voided
  <2> QED
    BY <2>1, <2>2
<1>9. CASE ~ st.kept
  <2>1. _web_ft' = void
    BY <1>1, <1>9
  <2>2. TableOrder(void)
    BY <1>5 DEF RetainInv, TableOrder
  <2>3. TableOrder(_web_ft)'
    BY <1>1, <1>9, <2>1, <2>2, OrderedHas
  <2>4. Voided(_web_ft)'
    BY <1>5, <1>6, <2>1 DEF RetainInv, Voided
  <2>5. EndedFit'
    <3>1. ASSUME NEW g \in Files
          PROVE  /\ _web_ft'[g].complete = _web_ft[g].complete
                 /\ _web_ft[g].complete => _web_ft'[g].buf = _web_ft[g].buf
      <4>1. CASE g = f
        <5>1. _web_ft[f].complete \in BOOLEAN /\ Down!None.complete \in BOOLEAN
          BY <1>2 DEF Entry, Down!None
        <5> QED
          BY <1>5, <1>6, <1>7, <2>1, <4>1, <5>1
      <4> QED
        BY <1>5, <2>1, <4>1
    <3> QED
      BY <3>1, EndedSame DEF RetainInv
  <2> QED
    BY <2>3, <2>4, <2>5 DEF RetainInv
<1>10. CASE st.kept
  <2> DEFINE e == Down!Evicted(done)
  <2>1. _web_ft' = e /\ order' = Down!Ordered(e)
    BY <1>1, <1>10
  <2>2. \A g \in Files : e[g] = done[g] \/ e[g] = Down!None
    BY <1>3, EvictedOrNot
  <2>3. Cardinality(Chunked(e, Ended(e))) <= WEB_FT_RETAIN_TOTAL
    BY <1>3, <1>8, EvictedFit
  <2> HIDE DEF e
  <2>4. TableOrder(e)
    BY <1>8, <2>2 DEF TableOrder
  <2>5. TableOrder(_web_ft)'
    BY <2>1, <2>4, OrderedHas
  <2>6. Voided(_web_ft)'
    BY <1>6, <1>8, <2>1, <2>2 DEF Voided
  <2>7. EndedFit'
    BY <2>1, <2>3 DEF EndedFit
  <2> QED
    BY <2>5, <2>6, <2>7 DEF RetainInv
<1> QED
  BY <1>2, <1>9, <1>10 DEF Entry

LEMMA RetainFirst ==
    ASSUME DownInv, RetainInv, NEW v \in Viewers, NEW f \in Files, Down!AcceptFirst(v, f)
    PROVE  RetainInv'
<1> DEFINE new == [Down!None EXCEPT !.viewers = {v}, !.kept = TRUE]
<1>1. /\ _web_ft' = [_web_ft EXCEPT ![f] = new] /\ order' = Append(order, f)
      /\ _web_ft[f] = Down!None
  BY DEF Down!AcceptFirst, Down!Known
<1>2. new.buf = <<>> /\ new.complete = Down!None.complete /\ new.kept = TRUE
  BY DEF Down!None
<1> HIDE DEF new
<1>3. _web_ft'[f] = new /\ \A g \in Files \ {f} : _web_ft'[g] = _web_ft[g]
  BY <1>1 DEF DownInv, FilesTyped
<1>4. EndedFit'
  <2>1. ~ Down!None.complete
    BY DEF Down!None
  <2>2. ASSUME NEW g \in Files
        PROVE  /\ _web_ft'[g].complete = _web_ft[g].complete
               /\ _web_ft[g].complete => _web_ft'[g].buf = _web_ft[g].buf
    BY <1>1, <1>2, <1>3, <2>1
  <2> QED
    BY <2>2, EndedSame DEF RetainInv
<1>5. Voided(_web_ft)'
  BY <1>2, <1>3 DEF RetainInv, Voided
<1>6. TableOrder(_web_ft)'
  <2>1. order \in Seq(Files)
    BY DEF RetainInv, TableOrder
  <2>2. /\ order' \in Seq(Files) /\ DOMAIN order \subseteq DOMAIN order'
        /\ \A i \in DOMAIN order : order'[i] = order[i]
        /\ Len(order) + 1 \in DOMAIN order' /\ order'[Len(order) + 1] = f
    BY <1>1, <2>1
  <2> QED
    BY <1>3, <2>2 DEF RetainInv, TableOrder
<1> QED
  BY <1>4, <1>5, <1>6 DEF RetainInv

\* One viewer more watches a file.
LEMMA RetainViewer ==
    ASSUME DownInv, RetainInv, NEW v \in Viewers, NEW f \in Files, Down!Known(f),
           _web_ft' = [_web_ft EXCEPT ![f].viewers = @ \cup {v}], order' = order
    PROVE  RetainInv'
<1>1. _web_ft[f] \in Entry /\ _web_ft \in [Files -> Entry]
  BY DEF DownInv, FilesTyped
<1>2. /\ _web_ft'[f] = [_web_ft[f] EXCEPT !.viewers = @ \cup {v}]
      /\ \A g \in Files \ {f} : _web_ft'[g] = _web_ft[g]
  BY <1>1
<1>3. /\ _web_ft'[f].kept = _web_ft[f].kept /\ _web_ft'[f].buf = _web_ft[f].buf
      /\ _web_ft'[f].complete = _web_ft[f].complete
  BY <1>1, <1>2 DEF Entry
<1> QED
  BY <1>2, <1>3, RetainRests DEF Down!Known

LEMMA RetainStep ==
    ASSUME DownBounds, RetainBound, DownInv, RetainInv, [Down!Next]_(Down!fileVars)
    PROVE  RetainInv'
<1>1. ASSUME UNCHANGED <<_web_ft, order>> PROVE RetainInv'
  BY <1>1, RetainRests
<1>2. ASSUME NEW f \in Files, Down!Offer(f) \/ Down!MemberAccepts(f) PROVE RetainInv'
  BY <1>1, <1>2 DEF Down!Offer, Down!MemberAccepts, Down!web
<1>3. ASSUME NEW f \in Files, Down!Send(f) PROVE RetainInv'
  <2>1. sent[f] \in 0 .. Chunks
    BY <1>3 DEF Down!Send
  <2>2. CASE seated /\ Down!Known(f)
    BY <1>3, <2>1, <2>2, RetainChunk, RetainDone DEF Down!Send, Down!Follows
  <2>3. CASE ~ (seated /\ Down!Known(f))
    BY <1>1, <1>3, <2>3 DEF Down!Send, Down!Follows
  <2> QED
    BY <2>2, <2>3
<1>4. ASSUME NEW v \in Viewers, NEW f \in Files,
             \/ Down!AcceptFirst(v, f) \/ Down!AcceptEarly(v, f) \/ Down!AcceptLate(v, f)
             \/ Down!Decline(v, f)
      PROVE  RetainInv'
  <2>1. CASE Down!AcceptFirst(v, f)
    BY <2>1, RetainFirst
  <2>2. CASE Down!AcceptEarly(v, f)
    BY <2>2, RetainViewer DEF Down!AcceptEarly
  <2>3. CASE Down!AcceptLate(v, f)
    <3>1. Down!Known(f) /\ order' = order
      BY <2>3 DEF Down!AcceptLate
    <3>2. _web_ft' = _web_ft \/ _web_ft' = [_web_ft EXCEPT ![f].viewers = @ \cup {v}]
      BY <2>3 DEF Down!AcceptLate
    <3> QED
      BY <1>1, <3>1, <3>2, RetainViewer
  <2>4. CASE Down!Decline(v, f)
    BY <1>1, <2>4 DEF Down!Decline
  <2> QED
    BY <1>4, <2>1, <2>2, <2>3, <2>4
<1>5. ASSUME Down!RoomLost \/ (\E v \in Viewers : Down!SaveVm(v))
               \/ UNCHANGED Down!fileVars PROVE RetainInv'
  BY <1>1, <1>5 DEF Down!RoomLost, Down!SaveVm, Down!web, Down!fileVars
<1> QED
  BY <1>2, <1>3, <1>4, <1>5 DEF Down!Next

\* The types of all there is of a file: the limits of the tables.
DownSizes == OFFERS_MAX \in Nat /\ WEB_FT_RETAIN_MAX \in Nat

\* What is offered, and who has answered.
OffersTyped ==
    /\ seated \in BOOLEAN /\ made \subseteq Files
    /\ _web_offers \in Seq(Files) /\ Len(_web_offers) <= OFFERS_MAX + 1
    /\ requester \in Viewers \cup {NoOne}
    /\ chose \in [Files -> SUBSET Viewers]

\* What was heard, kept and handed on are chunks of a file.
ChunksTyped == \A f \in Files :
    /\ heard[f] \in Seq(1 .. Chunks)
    /\ _web_ft[f].buf \in Seq(1 .. Chunks) /\ Len(_web_ft[f].buf) <= WEB_FT_RETAIN_MAX
    /\ \A v \in Viewers : got[f][v] \in Seq(1 .. Chunks)

\* The table holds the files in the order, and each is in it once.
InTable(ft) == \A i \in DOMAIN order : ft[order[i]] # Down!None
NoTwice == \A i, j \in DOMAIN order : order[i] = order[j] => i = j

DownTyped == OffersTyped /\ ChunksTyped /\ InTable(_web_ft) /\ NoTwice

LEMMA DownTypedStart ==
    ASSUME DownSizes, Down!Init
    PROVE  DownTyped
<1>1. \A S : <<>> \in Seq(S) /\ Len(<<>>) = 0 /\ DOMAIN <<>> = {}
  OBVIOUS
<1>2. OffersTyped
  BY <1>1 DEF DownSizes, Down!Init, OffersTyped
<1>3. ChunksTyped
  <2>1. \A f \in Files : /\ heard[f] = <<>> /\ _web_ft[f].buf = <<>>
                         /\ \A v \in Viewers : got[f][v] = <<>>
    BY DEF Down!Init, Down!None
  <2>2. 0 <= WEB_FT_RETAIN_MAX /\ <<>> \in Seq(1 .. Chunks) /\ Len(<<>>) = 0
    BY <1>1 DEF DownSizes
  <2> QED
    BY <2>1, <2>2, Zenon DEF ChunksTyped
<1>4. InTable(_web_ft) /\ NoTwice
  BY <1>1 DEF Down!Init, InTable, NoTwice
<1> QED
  BY <1>2, <1>3, <1>4 DEF DownTyped

LEMMA DownShowsTypes ==
    ASSUME DownInv, RetainInv, DownTyped
    PROVE  Down!TypeOK
<1>1. /\ \A f \in Files : _web_ft[f] \in Entry /\ heard[f] \in Seq(1 .. Chunks)
      /\ \A f \in Files : got[f] \in [Viewers -> Seq(1 .. Chunks)]
  BY DEF DownInv, FilesTyped, DownTyped, ChunksTyped
<1>2. _web_ft \in [Files -> [viewers : SUBSET Viewers, started : BOOLEAN,
                             buf : Seq(1 .. Chunks), kept : BOOLEAN, complete : BOOLEAN]]
  <2>1. \A f \in Files : _web_ft[f].buf \in Seq(1 .. Chunks)
    BY DEF DownTyped, ChunksTyped
  <2> HIDE DEF DownTyped
  <2> QED
    BY <1>1, <2>1 DEF DownInv, FilesTyped, Entry
<1>3. heard \in [Files -> Seq(1 .. Chunks)] /\ got \in [Files -> [Viewers -> Seq(1 .. Chunks)]]
  BY <1>1 DEF DownInv, FilesTyped
<1>4. /\ order \in Seq(Files) /\ Down!IsInjective(order)
      /\ Down!Range(order) = {f \in Files : _web_ft[f] # Down!None}
  <2>1. order \in Seq(Files) /\ \A i \in DOMAIN order : order[i] \in Files
    BY DEF RetainInv, TableOrder
  <2> QED
    BY <2>1 DEF RetainInv, TableOrder, DownTyped, InTable, NoTwice, Down!IsInjective,
                Down!Range
<1> QED
  BY <1>2, <1>3, <1>4 DEF Down!TypeOK, DownInv, FilesTyped, DownTyped, OffersTyped,
                          ChunksTyped

\* What is left of the order holds what is left of the table, each once.
LEMMA LeftInTable ==
    ASSUME NEW ft, order \in Seq(Files), NoTwice, order' = Down!Ordered(ft), _web_ft' = ft
    PROVE  InTable(_web_ft)' /\ NoTwice'
<1> DEFINE left == {i \in DOMAIN order : ft[order[i]] # Down!None}
           nth(k) == CHOOSE i \in left : Down!Cardinality({j \in left : j <= i}) = k
<1>1. DOMAIN order = 1 .. Len(order) /\ Len(order) \in Nat
  OBVIOUS
<1>2. left \in SUBSET Nat /\ left \subseteq DOMAIN order /\ IsFiniteSet(left)
  <2>1. IsFiniteSet(1 .. Len(order))
    BY <1>1, FS_Interval
  <2>2. left \in SUBSET (1 .. Len(order))
    BY <1>1
  <2> HIDE DEF left
  <2>3. IsFiniteSet(left)
    BY <2>1, <2>2, FS_Subset
  <2>4. left \in SUBSET Nat /\ left \subseteq DOMAIN order
    BY <1>1, <2>2
  <2> QED
    BY <2>3, <2>4
<1>3. order' = [k \in 1 .. Cardinality(left) |-> order[Nth(left, k)]]
  <2>1. order' = [k \in 1 .. Cardinality(left) |-> order[nth(k)]]
    BY SameHeld DEF Down!Ordered
  <2>2. \A k : nth(k) = Nth(left, k)
    BY SameHeld DEF Nth, Rank
  <2> HIDE DEF left, nth
  <2> QED
    BY <2>1, <2>2
<1>4. \A i \in left : ft[order[i]] # Down!None
  OBVIOUS
<1> HIDE DEF left, nth
<1>5. /\ Cardinality(left) \in Nat
      /\ \A k \in 1 .. Cardinality(left) : Nth(left, k) \in left
      /\ \A j, k \in 1 .. Cardinality(left) : j < k => Nth(left, j) < Nth(left, k)
  BY <1>2, Nths
<1>6. InTable(_web_ft)'
  BY <1>3, <1>4, <1>5 DEF InTable
<1>7. ASSUME NEW j \in DOMAIN order', NEW k \in DOMAIN order', order'[j] = order'[k]
      PROVE  j = k
  <2>1. /\ j \in 1 .. Cardinality(left) /\ k \in 1 .. Cardinality(left)
        /\ order[Nth(left, j)] = order[Nth(left, k)]
    BY <1>3, <1>7
  <2>2. /\ Nth(left, j) \in DOMAIN order /\ Nth(left, k) \in DOMAIN order
        /\ Nth(left, j) \in Nat /\ Nth(left, k) \in Nat
    BY <1>2, <1>5, <2>1
  <2>3. Nth(left, j) = Nth(left, k)
    BY <2>1, <2>2 DEF NoTwice
  <2>4. ~(j < k) /\ ~(k < j) /\ j \in Nat /\ k \in Nat
    BY <1>5, <2>1, <2>2, <2>3
  <2> QED
    BY <2>4
<1> QED
  BY <1>6, <1>7 DEF NoTwice

LEMMA ChunkTyped ==
    ASSUME DownSizes, DownInv, ChunksTyped, InTable(_web_ft), NoTwice, NEW f \in Files,
           NEW n \in 1 .. Chunks, Down!Known(f), Down!ChunkIn(f, n), order \in Seq(Files)
    PROVE  ChunksTyped' /\ InTable(_web_ft)' /\ NoTwice'
<1> DEFINE st == _web_ft[f]
           keeps == st.kept /\ Len(st.buf) + 1 <= WEB_FT_RETAIN_MAX
           more == IF keeps THEN Append(st.buf, n) ELSE <<>>
           Chunky == Seq(1 .. Chunks)
<1>1. /\ _web_ft' = [_web_ft EXCEPT ![f].started = TRUE, ![f].kept = keeps,
                                    ![f].buf = IF keeps THEN Append(@, n) ELSE <<>>]
      /\ heard' = [heard EXCEPT ![f] = Append(@, n)]
      /\ got' = [got EXCEPT ![f] = [v \in Viewers |->
                    IF v \in st.viewers THEN Append(@[v], n) ELSE @[v]]]
      /\ order' = order
  BY DEF Down!ChunkIn
<1>2. st \in Entry /\ _web_ft \in [Files -> Entry] /\ heard \in [Files -> Seq(Nat)]
      /\ got \in [Files -> [Viewers -> Seq(Nat)]]
  BY DEF DownInv, FilesTyped
<1>3. /\ _web_ft'[f] = [st EXCEPT !.started = TRUE, !.kept = keeps, !.buf = more]
      /\ \A g \in Files \ {f} : _web_ft'[g] = _web_ft[g]
  BY <1>1, <1>2
<1>4. /\ heard'[f] = Append(heard[f], n)
      /\ \A v \in Viewers : got'[f][v] = Append(got[f][v], n) \/ got'[f][v] = got[f][v]
      /\ \A g \in Files \ {f} : heard'[g] = heard[g] /\ got'[g] = got[g]
  BY <1>1, <1>2
<1>5. \A q \in Chunky : Append(q, n) \in Chunky /\ Len(Append(q, n)) = Len(q) + 1
  OBVIOUS
<1>6. more \in Chunky /\ Len(more) <= WEB_FT_RETAIN_MAX
  <2>1. st.buf \in Chunky
    BY DEF ChunksTyped
  <2>2. <<>> \in Chunky /\ Len(<<>>) = 0
    OBVIOUS
  <2> HIDE DEF Chunky
  <2> QED
    BY <1>5, <2>1, <2>2 DEF DownSizes
<1> HIDE DEF keeps, more
<1>7. _web_ft'[f].buf = more /\ _web_ft'[f].started
  BY <1>2, <1>3 DEF Entry
<1>8. ChunksTyped'
  <2> HIDE DEF st
  <2>1. ASSUME NEW g \in Files
        PROVE  /\ heard'[g] \in Chunky
               /\ _web_ft'[g].buf \in Chunky /\ Len(_web_ft'[g].buf) <= WEB_FT_RETAIN_MAX
               /\ \A v \in Viewers : got'[g][v] \in Chunky
    <3>1. /\ heard[g] \in Chunky
          /\ _web_ft[g].buf \in Chunky /\ Len(_web_ft[g].buf) <= WEB_FT_RETAIN_MAX
          /\ \A v \in Viewers : got[g][v] \in Chunky
      BY DEF ChunksTyped
    <3> HIDE DEF Chunky
    <3>2. CASE g = f
      <4>1. heard'[f] \in Chunky
        BY <1>4, <1>5, <3>1, <3>2
      <4>2. \A v \in Viewers : got'[f][v] \in Chunky
        BY <1>4, <1>5, <3>1, <3>2
      <4> QED
        BY <1>6, <1>7, <3>2, <4>1, <4>2
    <3>3. CASE g # f
      <4>1. _web_ft'[g] = _web_ft[g] /\ heard'[g] = heard[g] /\ got'[g] = got[g]
        BY <1>3, <1>4, <3>3
      <4> QED
        BY <3>1, <4>1
    <3> QED
      BY <3>2, <3>3
  <2> QED
    BY <2>1 DEF ChunksTyped
<1>9. InTable(_web_ft)' /\ NoTwice'
  <2>1. _web_ft'[f] # Down!None
    BY <1>7 DEF Down!None
  <2>2. \A i \in DOMAIN order : order[i] \in Files
    OBVIOUS
  <2> QED
    BY <1>1, <1>3, <2>1, <2>2 DEF InTable, NoTwice
<1> QED
  BY <1>8, <1>9

LEMMA DoneTyped ==
    ASSUME DownSizes, DownInv, RetainInv, ChunksTyped, NoTwice, NEW f \in Files,
           Down!DoneIn(f)
    PROVE  ChunksTyped' /\ InTable(_web_ft)' /\ NoTwice'
<1> DEFINE st == _web_ft[f]
           done == [_web_ft EXCEPT ![f].complete = TRUE]
           void == [_web_ft EXCEPT ![f] = Down!None]
           ft == IF ~ st.kept THEN void ELSE Down!Evicted(done)
<1>1. _web_ft' = ft /\ order' = Down!Ordered(ft) /\ heard' = heard /\ got' = got
  BY DEF Down!DoneIn, Down!Keep
<1>2. st \in Entry /\ _web_ft \in [Files -> Entry]
  BY DEF DownInv, FilesTyped
<1>3. /\ done \in [Files -> Entry] /\ \A g \in Files : done[g].buf = _web_ft[g].buf
      /\ \A g \in Files : void[g] = Down!None \/ void[g] = _web_ft[g]
  BY <1>2 DEF Entry
<1>4. InTable(_web_ft)' /\ NoTwice'
  <2> HIDE DEF ft
  <2> QED
    BY <1>1, LeftInTable DEF RetainInv, TableOrder
<1>5. \A g \in Files : ft[g].buf = _web_ft[g].buf \/ ft[g].buf = <<>>
  <2>1. \A g \in Files : Down!Evicted(done)[g] = done[g] \/ Down!Evicted(done)[g] = Down!None
    BY <1>3, EvictedOrNot
  <2>2. Down!None.buf = <<>>
    BY DEF Down!None
  <2> HIDE DEF done, void
  <2> QED
    BY <1>3, <2>1, <2>2
<1>6. <<>> \in Seq(1 .. Chunks) /\ Len(<<>>) = 0
  OBVIOUS
<1>7. ChunksTyped'
  <2> DEFINE Chunky == Seq(1 .. Chunks)
  <2> HIDE DEF ft
  <2>1. ASSUME NEW g \in Files
        PROVE  /\ heard'[g] \in Chunky
               /\ _web_ft'[g].buf \in Chunky /\ Len(_web_ft'[g].buf) <= WEB_FT_RETAIN_MAX
               /\ \A v \in Viewers : got'[g][v] \in Chunky
    <3>1. /\ heard[g] \in Chunky
          /\ _web_ft[g].buf \in Chunky /\ Len(_web_ft[g].buf) <= WEB_FT_RETAIN_MAX
          /\ \A v \in Viewers : got[g][v] \in Chunky
      BY DEF ChunksTyped
    <3>2. <<>> \in Chunky /\ Len(<<>>) <= WEB_FT_RETAIN_MAX
      BY <1>6 DEF DownSizes
    <3> HIDE DEF Chunky
    <3>3. _web_ft'[g].buf = _web_ft[g].buf \/ _web_ft'[g].buf = <<>>
      BY <1>1, <1>5
    <3> QED
      BY <1>1, <3>1, <3>2, <3>3, Zenon
  <2> QED
    BY <2>1 DEF ChunksTyped
<1> QED
  BY <1>4, <1>7

\* A step that changes no bytes.
LEMMA ChunksRest ==
    ASSUME ChunksTyped, UNCHANGED heard,
           \A f \in Files : /\ _web_ft'[f].buf = _web_ft[f].buf
                            /\ \A v \in Viewers : \/ got'[f][v] = got[f][v]
                                                  \/ got'[f][v] = _web_ft[f].buf
    PROVE  ChunksTyped'
<1> DEFINE Chunky == Seq(1 .. Chunks)
<1>1. ASSUME NEW g \in Files
      PROVE  /\ heard'[g] \in Chunky
             /\ _web_ft'[g].buf \in Chunky /\ Len(_web_ft'[g].buf) <= WEB_FT_RETAIN_MAX
             /\ \A v \in Viewers : got'[g][v] \in Chunky
  <2>1. /\ heard[g] \in Chunky
        /\ _web_ft[g].buf \in Chunky /\ Len(_web_ft[g].buf) <= WEB_FT_RETAIN_MAX
        /\ \A v \in Viewers : got[g][v] \in Chunky
    BY DEF ChunksTyped
  <2> HIDE DEF Chunky
  <2>2. _web_ft'[g].buf = _web_ft[g].buf
    OBVIOUS
  <2>3. ASSUME NEW v \in Viewers PROVE got'[g][v] \in Chunky
    <3>1. got'[g][v] = got[g][v] \/ got'[g][v] = _web_ft[g].buf
      OBVIOUS
    <3> QED
      BY <2>1, <3>1
  <2> QED
    BY <2>1, <2>2, <2>3, Zenon
<1> QED
  BY <1>1 DEF ChunksTyped

LEMMA FirstTyped ==
    ASSUME DownSizes, DownInv, RetainInv, ChunksTyped, InTable(_web_ft), NoTwice,
           NEW v \in Viewers, NEW f \in Files, Down!AcceptFirst(v, f)
    PROVE  ChunksTyped' /\ InTable(_web_ft)' /\ NoTwice'
<1> DEFINE new == [Down!None EXCEPT !.viewers = {v}, !.kept = TRUE]
           Chunky == Seq(1 .. Chunks)
<1>1. /\ _web_ft' = [_web_ft EXCEPT ![f] = new] /\ order' = Append(order, f)
      /\ heard' = [heard EXCEPT ![f] = <<>>]
      /\ got' = [got EXCEPT ![f] = [w \in Viewers |-> <<>>]]
      /\ _web_ft[f] = Down!None
  BY DEF Down!AcceptFirst, Down!Known
<1>2. new.buf = <<>> /\ new # Down!None /\ <<>> \in Chunky /\ Len(<<>>) = 0
  <2>1. new.buf = <<>> /\ new.kept /\ ~ Down!None.kept
    BY DEF Down!None
  <2>2. <<>> \in Chunky /\ Len(<<>>) = 0
    OBVIOUS
  <2> HIDE DEF new
  <2> QED
    BY <2>1, <2>2
<1> HIDE DEF new
<1>3. /\ _web_ft'[f] = new /\ heard'[f] = <<>> /\ \A w \in Viewers : got'[f][w] = <<>>
      /\ \A g \in Files \ {f} : /\ _web_ft'[g] = _web_ft[g] /\ heard'[g] = heard[g]
                                /\ got'[g] = got[g]
  BY <1>1 DEF DownInv, FilesTyped
<1>4. ChunksTyped'
  <2>1. ASSUME NEW g \in Files
        PROVE  /\ heard'[g] \in Chunky
               /\ _web_ft'[g].buf \in Chunky /\ Len(_web_ft'[g].buf) <= WEB_FT_RETAIN_MAX
               /\ \A w \in Viewers : got'[g][w] \in Chunky
    <3>1. /\ heard[g] \in Chunky
          /\ _web_ft[g].buf \in Chunky /\ Len(_web_ft[g].buf) <= WEB_FT_RETAIN_MAX
          /\ \A w \in Viewers : got[g][w] \in Chunky
      BY DEF ChunksTyped
    <3> HIDE DEF Chunky
    <3>2. CASE g = f
      <4>1. Len(<<>>) <= WEB_FT_RETAIN_MAX
        BY <1>2 DEF DownSizes
      <4> QED
        BY <1>2, <1>3, <3>2, <4>1, Zenon
    <3>3. CASE g # f
      <4>1. _web_ft'[g] = _web_ft[g] /\ heard'[g] = heard[g] /\ got'[g] = got[g]
        BY <1>3, <3>3
      <4> QED
        BY <3>1, <4>1
    <3> QED
      BY <3>2, <3>3
  <2> QED
    BY <2>1 DEF ChunksTyped
<1>5. /\ order \in Seq(Files) /\ DOMAIN order = 1 .. Len(order) /\ Len(order) \in Nat
      /\ \A i \in DOMAIN order : order[i] \in Files \ {f}
  BY <1>1 DEF RetainInv, TableOrder, InTable
<1>6. /\ DOMAIN order' = 1 .. Len(order) + 1 /\ order'[Len(order) + 1] = f
      /\ \A i \in DOMAIN order : order'[i] = order[i]
  BY <1>1, <1>5
<1>7. \A i \in DOMAIN order' : i \in DOMAIN order \/ i = Len(order) + 1
  BY <1>5, <1>6
<1>8. InTable(_web_ft)'
  BY <1>2, <1>3, <1>5, <1>6, <1>7 DEF InTable
<1>9. NoTwice'
  BY <1>5, <1>6, <1>7 DEF NoTwice
<1> QED
  BY <1>4, <1>8, <1>9

\* A viewer more is all that changes in the table, if anything does.
LEMMA ViewerTyped ==
    ASSUME DownInv, RetainInv, InTable(_web_ft), NoTwice, NEW v \in Viewers, NEW f \in Files,
           Down!Known(f), order' = order,
           \/ _web_ft' = _web_ft
           \/ _web_ft' = [_web_ft EXCEPT ![f].viewers = @ \cup {v}]
    PROVE  /\ \A g \in Files : _web_ft'[g].buf = _web_ft[g].buf
           /\ InTable(_web_ft)' /\ NoTwice'
<1>1. CASE _web_ft' = _web_ft
  BY <1>1 DEF InTable, NoTwice
<1>2. CASE _web_ft' = [_web_ft EXCEPT ![f].viewers = @ \cup {v}]
  <2>1. _web_ft[f] \in Entry /\ _web_ft \in [Files -> Entry]
    BY DEF DownInv, FilesTyped
  <2>2. /\ _web_ft'[f] = [_web_ft[f] EXCEPT !.viewers = @ \cup {v}]
        /\ \A g \in Files \ {f} : _web_ft'[g] = _web_ft[g]
    BY <1>2, <2>1
  <2>3. /\ _web_ft'[f].buf = _web_ft[f].buf /\ _web_ft'[f].viewers = _web_ft[f].viewers \cup {v}
    BY <2>1, <2>2 DEF Entry
  <2>4. _web_ft'[f] # Down!None
    BY <2>3 DEF Down!None
  <2>5. \A i \in DOMAIN order : order[i] \in Files
    BY DEF RetainInv, TableOrder
  <2> QED
    BY <2>2, <2>3, <2>4, <2>5 DEF InTable, NoTwice
<1> QED
  BY <1>1, <1>2

LEMMA OfferTyped ==
    ASSUME DownSizes, OffersTyped, NEW f \in Files, Down!Offer(f)
    PROVE  OffersTyped'
<1> DEFINE rest == IF Len(_web_offers) > OFFERS_MAX THEN Tail(_web_offers) ELSE _web_offers
<1>1. _web_offers \in Seq(Files) /\ Len(_web_offers) \in Nat
      /\ Len(_web_offers) <= OFFERS_MAX + 1 /\ OFFERS_MAX \in Nat
  BY DEF OffersTyped, DownSizes
<1>2. rest \in Seq(Files) /\ Len(rest) <= OFFERS_MAX
  <2>1. CASE Len(_web_offers) > OFFERS_MAX
    <3>1. _web_offers # <<>>
      BY <1>1, <2>1
    <3>2. Tail(_web_offers) \in Seq(Files) /\ Len(Tail(_web_offers)) = Len(_web_offers) - 1
      BY <1>1, <3>1
    <3> QED
      BY <1>1, <2>1, <3>2
  <2>2. CASE ~ (Len(_web_offers) > OFFERS_MAX)
    BY <1>1, <2>2
  <2> QED
    BY <2>1, <2>2
<1>3. /\ seated' = seated /\ made' = made \cup {f} /\ chose' = chose
      /\ \/ _web_offers' = _web_offers /\ requester' = requester
         \/ /\ _web_offers' = Append(rest, f)
            /\ requester' = NoOne \/ requester' = requester
  BY DEF Down!Offer
<1> HIDE DEF rest
<1>4. Append(rest, f) \in Seq(Files) /\ Len(Append(rest, f)) = Len(rest) + 1
      /\ Len(rest) \in Nat
  BY <1>2
<1>5. _web_offers' \in Seq(Files) /\ Len(_web_offers') <= OFFERS_MAX + 1
  BY <1>1, <1>2, <1>3, <1>4
<1> QED
  BY <1>3, <1>5 DEF OffersTyped

LEMMA DownTypedStep ==
    ASSUME DownBounds, DownSizes, DownInv, RetainInv, DownTyped, [Down!Next]_(Down!fileVars)
    PROVE  DownTyped'
<1>1. ASSUME UNCHANGED <<_web_ft, order, heard, got>>, OffersTyped' PROVE DownTyped'
  BY <1>1, ChunksRest DEF DownTyped, InTable, NoTwice
<1>2. CASE UNCHANGED Down!fileVars
  BY <1>1, <1>2 DEF Down!fileVars, Down!web, Down!traces, OffersTyped, DownTyped
<1>3. ASSUME NEW f \in Files, Down!Offer(f) PROVE DownTyped'
  BY <1>1, <1>3, OfferTyped DEF Down!Offer, Down!traces, DownTyped
<1>4. ASSUME NEW f \in Files, Down!MemberAccepts(f) PROVE DownTyped'
  BY <1>1, <1>4 DEF Down!MemberAccepts, Down!web, Down!traces, OffersTyped, DownTyped
<1>5. ASSUME Down!RoomLost PROVE DownTyped'
  <2>1. (~seated) \in BOOLEAN
    OBVIOUS
  <2> QED
    BY <1>1, <1>5, <2>1 DEF Down!RoomLost, Down!web, Down!traces, OffersTyped, DownTyped
<1>6. ASSUME NEW v \in Viewers, Down!SaveVm(v) PROVE DownTyped'
  BY <1>1, <1>6 DEF Down!SaveVm, Down!traces, OffersTyped, DownTyped
<1>7. ASSUME NEW f \in Files, Down!Send(f) PROVE DownTyped'
  <2>1. OffersTyped'
    BY <1>7 DEF Down!Send, OffersTyped, DownTyped
  <2>2. CASE ~ (seated /\ Down!Known(f))
    BY <1>1, <1>7, <2>1, <2>2 DEF Down!Send, Down!Follows, Down!traces
  <2>3. CASE seated /\ Down!Known(f)
    <3>1. \/ sent[f] + 1 \in 1 .. Chunks /\ Down!ChunkIn(f, sent[f] + 1)
          \/ Down!DoneIn(f)
      BY <1>7, <2>3 DEF Down!Send, Down!Follows, DownBounds
    <3>2. ChunksTyped' /\ InTable(_web_ft)' /\ NoTwice'
      BY <2>3, <3>1, ChunkTyped, DoneTyped DEF DownTyped, RetainInv, TableOrder
    <3> QED
      BY <2>1, <3>2 DEF DownTyped
  <2> QED
    BY <2>2, <2>3
<1>8. ASSUME NEW v \in Viewers, NEW f \in Files, Down!Answers(v, f) PROVE OffersTyped'
  <2>1. chose[f] \cup {v} \in SUBSET Viewers
    BY DEF OffersTyped, DownTyped
  <2> QED
    BY <1>8, <2>1 DEF Down!Answers, OffersTyped, DownTyped
<1>9. ASSUME NEW v \in Viewers, NEW f \in Files, Down!AcceptFirst(v, f) PROVE DownTyped'
  BY <1>8, <1>9, FirstTyped DEF Down!AcceptFirst, DownTyped
<1>10. ASSUME NEW v \in Viewers, NEW f \in Files, Down!AcceptEarly(v, f) PROVE DownTyped'
  <2>1. /\ Down!Known(f) /\ UNCHANGED <<order, heard, got>>
        /\ _web_ft' = [_web_ft EXCEPT ![f].viewers = @ \cup {v}]
    BY <1>10 DEF Down!AcceptEarly, Down!traces
  <2>2. /\ \A g \in Files : _web_ft'[g].buf = _web_ft[g].buf
        /\ InTable(_web_ft)' /\ NoTwice'
    BY <2>1, ViewerTyped DEF DownTyped
  <2>3. ChunksTyped'
    BY <2>1, <2>2, ChunksRest DEF DownTyped
  <2> QED
    BY <1>8, <1>10, <2>2, <2>3 DEF Down!AcceptEarly, DownTyped
<1>11. ASSUME NEW v \in Viewers, NEW f \in Files, Down!AcceptLate(v, f) PROVE DownTyped'
  <2>1. /\ Down!Known(f) /\ UNCHANGED <<order, heard>>
        /\ \/ _web_ft' = _web_ft
           \/ _web_ft' = [_web_ft EXCEPT ![f].viewers = @ \cup {v}]
        /\ got' = got \/ got' = [got EXCEPT ![f][v] = _web_ft[f].buf]
    BY <1>11 DEF Down!AcceptLate, Down!traces
  <2>2. /\ \A g \in Files : _web_ft'[g].buf = _web_ft[g].buf
        /\ InTable(_web_ft)' /\ NoTwice'
    BY <2>1, ViewerTyped DEF DownTyped
  <2>3. ASSUME NEW g \in Files, NEW w \in Viewers
        PROVE  got'[g][w] = got[g][w] \/ got'[g][w] = _web_ft[g].buf
    <3> DEFINE b == _web_ft[f].buf
    <3>1. got \in [Files -> [Viewers -> Seq(Nat)]]
      BY DEF DownInv, FilesTyped
    <3>2. got' = got \/ got' = [got EXCEPT ![f][v] = b]
      BY <2>1
    <3> HIDE DEF b
    <3>3. got'[g][w] = got[g][w] \/ (g = f /\ got'[g][w] = b)
      BY <3>1, <3>2
    <3> QED
      BY <3>3 DEF b
  <2>4. ChunksTyped'
    BY <2>1, <2>2, <2>3, ChunksRest DEF DownTyped
  <2> QED
    BY <1>8, <1>11, <2>2, <2>4 DEF Down!AcceptLate, DownTyped
<1>12. ASSUME NEW v \in Viewers, NEW f \in Files, Down!Decline(v, f) PROVE DownTyped'
  BY <1>1, <1>8, <1>12 DEF Down!Decline, Down!traces
<1> QED
  BY <1>2, <1>3, <1>4, <1>5, <1>6, <1>7, <1>9, <1>10, <1>11, <1>12 DEF Down!Next

----------------------------------------------------------------------------
(* WebUploads. *)

\* The publisher's counts are those of the library.
LEMMA SameCounts ==
    ASSUME NEW S
    PROVE  /\ Upl!IsFiniteSet(S) <=> IsFiniteSet(S)
           /\ Upl!Cardinality(S) = Cardinality(S)
<1>1. Upl!IsFiniteSet(S) <=> IsFiniteSet(S)
  BY DEF IsFiniteSet, Upl!IsFiniteSet
<1>2. Upl!Cardinality(S) = Cardinality(S)
  BY DEF Cardinality, Upl!Cardinality
<1> QED
  BY <1>1, <1>2

LEMMA CountNone == Upl!IsFiniteSet({}) /\ Upl!Cardinality({}) = 0
BY FS_EmptySet, SameCounts

LEMMA CountSub ==
    ASSUME NEW S, Upl!IsFiniteSet(S), NEW T \in SUBSET S
    PROVE  /\ Upl!IsFiniteSet(T) /\ Upl!Cardinality(T) <= Upl!Cardinality(S)
           /\ Upl!Cardinality(T) \in Nat /\ Upl!Cardinality(S) \in Nat
BY FS_Subset, FS_CardinalityType, SameCounts

LEMMA CountAdd ==
    ASSUME NEW S, Upl!IsFiniteSet(S), NEW e
    PROVE  /\ Upl!IsFiniteSet(S \cup {e})
           /\ Upl!Cardinality(S \cup {e}) <= Upl!Cardinality(S) + 1
           /\ Upl!Cardinality(S) \in Nat /\ Upl!Cardinality(S \cup {e}) \in Nat
BY FS_AddElement, FS_CardinalityType, SameCounts

\* The bounds are numbers, a page can be told something, and nobody is a mark.
UploadBounds ==
    /\ Picks \in Nat /\ Chunks \in Nat /\ LineMax \in Nat /\ BackMax \in Nat \ {0}
    /\ WEB_UPLOAD_PER_VIEWER \in Nat /\ WEB_UPLOAD_PER_ROOM \in Nat
    /\ NoMember \notin Members

UpFrame == [kind : Upl!UpKinds, guest : Guests, pick : 0 .. Picks, seq : 0 .. Chunks]
BackFrame == [kind : {"ack", "end"}, pick : 1 .. Picks]

PagesOK ==
    /\ picked \in [Guests -> 0 .. Picks] /\ current \in [Guests -> 0 .. Picks]
    /\ acked \in [Guests -> BOOLEAN] /\ loops \in [Upl!Uploads -> 0 .. Chunks + 1]
    /\ back \in [Guests -> Seq(BackFrame)]
UploadLinesOK ==
    /\ gone \subseteq Guests /\ uplinked \in BOOLEAN
    /\ upline \in Seq(UpFrame) /\ Len(upline) <= LineMax
StagesOK ==
    /\ hosting \in BOOLEAN /\ offered \subseteq Upl!Uploads
    /\ uploads \in [Upl!Uploads -> [by : Members \cup {NoMember}, seq : 0 .. Chunks + 1]]
    /\ passed \in [Upl!Uploads -> Seq([to : Members, seq : 0 .. Chunks])]
    /\ first \in [Upl!Uploads -> Members \cup {NoMember}]

\* An upload nobody has heard of yet.
UploadFresh(u) == uploads[u] = Upl!NotStaged /\ passed[u] = <<>> /\ first[u] = NoMember

\* A pick is offered once, and the frames on the line that offer one offer what
\* nobody has heard of.
Offers(f, u) == f.kind = "offer" /\ <<f.guest, f.pick>> = u
OfferedOnce(q) == \A i, j \in DOMAIN q : \A u \in Upl!Uploads :
    Offers(q[i], u) /\ Offers(q[j], u) => i = j
OffersFresh(q) == \A i \in DOMAIN q : q[i].kind = "offer" =>
    q[i].pick \in 1 .. picked[q[i].guest] /\ UploadFresh(<<q[i].guest, q[i].pick>>)

\* What is staged of an upload agrees with what went into the room of it.
InOrder(u) == \A i \in DOMAIN passed[u] :
    /\ passed[u][i].to = first[u]
    /\ passed[u][i].seq = i \/ (passed[u][i].seq = 0 /\ i = Len(passed[u]))
Followed(u) ==
    /\ InOrder(u)
    /\ u[2] > picked[u[1]] => UploadFresh(u)
    /\ uploads[u] # Upl!NotStaged /\ uploads[u].by = NoMember =>
           passed[u] = <<>> /\ uploads[u].seq = 0 /\ first[u] = NoMember
    /\ uploads[u].by # NoMember =>
           /\ first[u] = uploads[u].by /\ Len(passed[u]) = uploads[u].seq
           /\ \A i \in DOMAIN passed[u] : passed[u][i].seq = i

UploadsFollowed == OfferedOnce(upline) /\ OffersFresh(upline)
  /\ \A u \in Upl!Uploads : Followed(u)
SlotsKept == Upl!IsFiniteSet(Upl!Staged) /\ Upl!SlotsBounded
UploadInv == PagesOK /\ UploadLinesOK /\ StagesOK /\ UploadsFollowed /\ SlotsKept

LEMMA UploadsShow ==
    ASSUME UploadInv
    PROVE  Upl!TypeOK /\ Upl!UploadsInOrder /\ Upl!SlotsBounded
<1>1. Upl!TypeOK
  BY DEF UploadInv, PagesOK, UploadLinesOK, StagesOK, Upl!TypeOK, UpFrame, BackFrame
<1>2. Upl!UploadsInOrder
  BY DEF UploadInv, UploadsFollowed, Followed, InOrder, Upl!UploadsInOrder
<1> QED
  BY <1>1, <1>2 DEF UploadInv, SlotsKept

LEMMA UploadStart ==
    ASSUME UploadBounds, Upl!Init
    PROVE  UploadInv
<1>1. /\ 0 \in 0 .. Picks /\ 0 \in 0 .. Chunks + 1 /\ Chunks + 1 \in 0 .. Chunks + 1
      /\ \A T : <<>> \in Seq(T)
      /\ Len(<<>>) = 0 /\ DOMAIN <<>> = {} /\ 0 <= LineMax
  BY DEF UploadBounds
<1>2. PagesOK /\ UploadLinesOK
  BY <1>1 DEF Upl!Init, PagesOK, UploadLinesOK
<1>3. StagesOK
  BY <1>1 DEF Upl!Init, StagesOK, Upl!NotStaged
<1>4. UploadsFollowed
  BY <1>1 DEF Upl!Init, UploadsFollowed, OfferedOnce, OffersFresh, Followed, InOrder,
              UploadFresh, Upl!NotStaged
<1>5. Upl!Staged = {}
  BY DEF Upl!Init, Upl!Staged
<1>6. \A g \in Guests : {u \in Upl!Staged : u[1] = g} = {}
  BY <1>5
<1>7. SlotsKept
  BY <1>5, <1>6, CountNone DEF SlotsKept, Upl!SlotsBounded, UploadBounds
<1> QED
  BY <1>2, <1>3, <1>4, <1>7 DEF UploadInv

\* SlotsKept are not exceeded when none is taken.
LEMMA FewerStaged ==
    ASSUME UploadBounds, SlotsKept, Upl!Staged' \subseteq Upl!Staged
    PROVE  SlotsKept'
<1>1. Upl!IsFiniteSet(Upl!Staged')
        /\ Upl!Cardinality(Upl!Staged') <= Upl!Cardinality(Upl!Staged)
      /\ Upl!Cardinality(Upl!Staged') \in Nat /\ Upl!Cardinality(Upl!Staged) \in Nat
  BY CountSub DEF SlotsKept
<1>2. ASSUME NEW g \in Guests
      PROVE  Upl!Cardinality({u \in Upl!Staged' : u[1] = g}) <= WEB_UPLOAD_PER_VIEWER
  <2> DEFINE S == {u \in Upl!Staged : u[1] = g}
             T == {u \in Upl!Staged' : u[1] = g}
  <2>1. S \subseteq Upl!Staged /\ T \subseteq S
    OBVIOUS
  <2>2. Upl!Cardinality(S) <= WEB_UPLOAD_PER_VIEWER
    BY DEF SlotsKept, Upl!SlotsBounded
  <2> HIDE DEF S, T
  <2>3. Upl!IsFiniteSet(S) /\ Upl!Cardinality(S) \in Nat
    BY <2>1, CountSub DEF SlotsKept
  <2>4. Upl!Cardinality(T) <= Upl!Cardinality(S) /\ Upl!Cardinality(T) \in Nat
    BY <2>1, <2>3, CountSub
  <2>5. Upl!Cardinality(T) <= WEB_UPLOAD_PER_VIEWER
    BY <2>2, <2>3, <2>4 DEF UploadBounds
  <2> QED
    BY <2>5 DEF T
<1>3. Upl!Cardinality(Upl!Staged) <= WEB_UPLOAD_PER_ROOM
  BY DEF SlotsKept, Upl!SlotsBounded
<1>4. Upl!Cardinality(Upl!Staged') <= WEB_UPLOAD_PER_ROOM
  BY <1>1, <1>3 DEF UploadBounds
<1> QED
  BY <1>1, <1>2, <1>4 DEF SlotsKept, Upl!SlotsBounded

\* A frame on the line.
LEMMA FrameParts ==
    ASSUME NEW f \in UpFrame
    PROVE  /\ f.guest \in Guests /\ f.pick \in 0 .. Picks /\ f.seq \in 0 .. Chunks
           /\ f.kind \in Upl!UpKinds /\ (f.pick # 0 => <<f.guest, f.pick>> \in Upl!Uploads)
BY DEF UpFrame, Upl!Uploads

\* The line grows by a frame, or the frame is lost.
LEMMA UplineGrows ==
    ASSUME UploadBounds, UploadLinesOK, NEW f \in UpFrame, Upl!Up(f)
    PROVE  /\ upline' \in Seq(UpFrame) /\ Len(upline') <= LineMax
           /\ upline' = upline \/ upline' = Append(upline, f)
<1>1. upline \in Seq(UpFrame) /\ Len(upline) <= LineMax /\ Len(upline) \in Nat
  BY DEF UploadLinesOK
<1> HIDE DEF UpFrame
<1>2. Append(upline, f) \in Seq(UpFrame) /\ Len(Append(upline, f)) = Len(upline) + 1
  BY <1>1, Appended
<1>3. Len(upline) < LineMax => Len(upline) + 1 <= LineMax
  BY <1>1 DEF UploadBounds
<1> QED
  BY <1>1, <1>2, <1>3 DEF Upl!Up

\* Frames that offer nothing, and the loss of frames, leave the offers alone.
LEMMA OffersStay ==
    ASSUME NEW q \in Seq(UpFrame), OfferedOnce(q), OffersFresh(q), NEW f \in UpFrame,
           f.kind # "offer"
    PROVE  OfferedOnce(Append(q, f)) /\ OffersFresh(Append(q, f))
<1>1. \A i \in DOMAIN Append(q, f) :
          Append(q, f)[i] = f \/ (i \in DOMAIN q /\ Append(q, f)[i] = q[i])
  BY Appended
<1> DEFINE p == Append(q, f)
<1> HIDE DEF p
<1>2. \A i \in DOMAIN p : p[i] = f \/ (i \in DOMAIN q /\ p[i] = q[i])
  BY <1>1 DEF p
<1>3. OfferedOnce(p)
  BY <1>2 DEF OfferedOnce, Offers
<1>4. OffersFresh(p)
  BY <1>2 DEF OffersFresh
<1> QED
  BY <1>3, <1>4 DEF p

LEMMA OffersTail ==
    ASSUME NEW q \in Seq(UpFrame), OfferedOnce(q), OffersFresh(q), q # <<>>
    PROVE  /\ OfferedOnce(Tail(q)) /\ OffersFresh(Tail(q)) /\ Tail(q) \in Seq(UpFrame)
           /\ Head(q) \in UpFrame /\ Len(Tail(q)) + 1 = Len(q)
           /\ \A i \in DOMAIN Tail(q) : \A u \in Upl!Uploads :
                  ~ (Offers(Head(q), u) /\ Offers(Tail(q)[i], u))
           /\ Head(q).kind = "offer" =>
                  /\ Head(q).pick \in 1 .. picked[Head(q).guest]
                  /\ UploadFresh(<<Head(q).guest, Head(q).pick>>)
<1> DEFINE p == Tail(q)
           h == Head(q)
<1>1. /\ p \in Seq(UpFrame) /\ h \in UpFrame /\ Len(p) + 1 = Len(q) /\ h = q[1]
      /\ 1 \in DOMAIN q /\ \A i \in DOMAIN p : i + 1 \in DOMAIN q /\ p[i] = q[i + 1]
           /\ i \in Nat
  <2> HIDE DEF UpFrame
  <2> QED
    OBVIOUS
<1> HIDE DEF p, h
<1>2. OfferedOnce(p)
  <2> SUFFICES ASSUME NEW i \in DOMAIN p, NEW j \in DOMAIN p, NEW u \in Upl!Uploads,
                      Offers(p[i], u), Offers(p[j], u)
               PROVE  i = j
    BY DEF OfferedOnce
  <2>1. i + 1 = j + 1
    BY <1>1 DEF OfferedOnce
  <2> QED
    BY <1>1, <2>1
<1>3. OffersFresh(p)
  BY <1>1 DEF OffersFresh
<1>4. ASSUME NEW i \in DOMAIN p, NEW u \in Upl!Uploads, Offers(h, u), Offers(p[i], u)
      PROVE  FALSE
  <2>1. 1 = i + 1
    BY <1>1, <1>4 DEF OfferedOnce
  <2> QED
    BY <1>1, <2>1
<1>5. h.kind = "offer" => h.pick \in 1 .. picked[h.guest]
        /\ UploadFresh(<<h.guest, h.pick>>)
  BY <1>1 DEF OffersFresh
<1> QED
  BY <1>1, <1>2, <1>3, <1>4, <1>5 DEF p, h

\* A page does something: nothing is staged or offered by it.
LEMMA PageActs ==
    ASSUME UploadBounds, UploadLinesOK, UploadsFollowed, SlotsKept,
           UNCHANGED <<picked, uploads, passed, first>>,
           \/ upline' = upline \/ upline' = <<>>
           \/ \E f \in UpFrame : f.kind # "offer" /\ upline' = Append(upline, f)
    PROVE  UploadsFollowed' /\ SlotsKept'
<1>1. OfferedOnce(upline') /\ OffersFresh(upline')
  <2>1. OfferedOnce(upline) /\ OffersFresh(upline) /\ upline \in Seq(UpFrame)
    BY DEF UploadsFollowed, UploadLinesOK
  <2>2. CASE upline' = <<>>
    <3>1. DOMAIN upline' = {}
      BY <2>2
    <3> QED
      BY <3>1 DEF OfferedOnce, OffersFresh
  <2>3. CASE upline' = upline
    BY <2>1, <2>3
  <2>4. ASSUME NEW f \in UpFrame, f.kind # "offer", upline' = Append(upline, f)
        PROVE  OfferedOnce(upline') /\ OffersFresh(upline')
    BY <2>1, <2>4, OffersStay
  <2> QED
    BY <2>2, <2>3, <2>4
<1>2. OffersFresh(upline)'
  BY <1>1 DEF OffersFresh, UploadFresh
<1>3. \A u \in Upl!Uploads : Followed(u)'
  BY DEF UploadsFollowed, Followed, InOrder, UploadFresh
<1>4. OfferedOnce(upline)'
  BY <1>1 DEF OfferedOnce
<1>5. Upl!Staged' \subseteq Upl!Staged
  BY DEF Upl!Staged
<1> QED
  BY <1>2, <1>3, <1>4, <1>5, FewerStaged DEF UploadsFollowed

\* The publisher does something to some uploads, and forgets others.
LEMMA BooksAct ==
    ASSUME UploadsFollowed, UNCHANGED picked, NEW us \in SUBSET Upl!Uploads,
           \A w \in Upl!Uploads \ us : /\ uploads'[w] \in {uploads[w], Upl!NotStaged}
                                       /\ passed'[w] = passed[w] /\ first'[w] = first[w],
           \A w \in us : Followed(w)',
           OfferedOnce(upline'), OffersFresh(upline'), upline' \in Seq(UpFrame),
           \A i \in DOMAIN upline' : \A w \in us : ~Offers(upline'[i], w)
    PROVE  UploadsFollowed'
<1>1. ASSUME NEW w \in Upl!Uploads
      PROVE  Followed(w)'
  <2>1. CASE w \in us
    BY <2>1
  <2>2. CASE w \notin us /\ uploads'[w] = uploads[w]
    BY <2>2 DEF UploadsFollowed, Followed, InOrder, UploadFresh
  <2>3. CASE w \notin us /\ uploads'[w] = Upl!NotStaged
    BY <2>3 DEF UploadsFollowed, Followed, InOrder, UploadFresh, Upl!NotStaged
  <2> QED
    BY <2>1, <2>2, <2>3
<1>2. \A w \in Upl!Uploads \ us : UploadFresh(w) => UploadFresh(w)'
  BY DEF UploadFresh
<1>3. OffersFresh(upline)'
  <2>1. ASSUME NEW i \in DOMAIN upline', upline'[i].kind = "offer"
        PROVE  /\ upline'[i].pick \in 1 .. picked[upline'[i].guest]
               /\ \E w \in Upl!Uploads \ us :
                      w = <<upline'[i].guest, upline'[i].pick>> /\ UploadFresh(w)
    <3>1. upline'[i] \in UpFrame /\ upline'[i].pick \in 1 .. picked[upline'[i].guest]
          /\ UploadFresh(<<upline'[i].guest, upline'[i].pick>>)
      BY <2>1 DEF OffersFresh
    <3>2. <<upline'[i].guest, upline'[i].pick>> \in Upl!Uploads
      <4>1. upline'[i].pick # 0
        BY <3>1
      <4> QED
        BY <3>1, <4>1, FrameParts
    <3>3. <<upline'[i].guest, upline'[i].pick>> \notin us
      BY <2>1 DEF Offers
    <3> QED
      BY <3>1, <3>2, <3>3
  <2>2. \A i \in DOMAIN upline' : upline'[i].kind = "offer" =>
            /\ upline'[i].pick \in 1 .. picked'[upline'[i].guest]
            /\ \E w \in Upl!Uploads \ us :
                   w = <<upline'[i].guest, upline'[i].pick>> /\ UploadFresh(w)'
    BY <1>2, <2>1
  <2> QED
    BY <2>2 DEF OffersFresh, UploadFresh
<1> QED
  BY <1>1, <1>3 DEF UploadsFollowed, OfferedOnce

\* Nothing on the line offers what is staged.
LEMMA StagedIsKnown ==
    ASSUME NEW q, OffersFresh(q), NEW u \in Upl!Staged
    PROVE  \A i \in DOMAIN q : ~Offers(q[i], u)
BY DEF OffersFresh, Offers, UploadFresh, Upl!Staged

LEMMA PageToldStep ==
    ASSUME UploadBounds, PagesOK, NEW g \in Guests, NEW kind \in {"ack", "end"},
           NEW k \in 1 .. Picks,
           Upl!Tell(g, kind, k)
    PROVE  back' \in [Guests -> Seq(BackFrame)]
<1> DEFINE e == [kind |-> kind, pick |-> k]
           q == back[g]
<1>1. e \in BackFrame /\ q \in Seq(BackFrame)
  BY DEF BackFrame, PagesOK
<1>2. back' = [back EXCEPT ![g] = IF Len(q) < BackMax THEN Append(q, e)
                                  ELSE Append(Tail(q), e)]
  BY DEF Upl!Tell
<1> HIDE DEF e, q, BackFrame
<1>3. Append(q, e) \in Seq(BackFrame)
  BY <1>1
<1>4. ~ (Len(q) < BackMax) => q # <<>>
  BY <1>1 DEF UploadBounds
<1>5. ~ (Len(q) < BackMax) => Append(Tail(q), e) \in Seq(BackFrame)
  BY <1>1, <1>4
<1> QED
  BY <1>2, <1>3, <1>5 DEF PagesOK

LEMMA DropsOnly ==
    ASSUME UploadBounds, StagesOK, NEW us, Upl!Drop(us)
    PROVE  /\ uploads' \in [Upl!Uploads -> [by : Members \cup {NoMember}, seq :
                0 .. Chunks + 1]]
           /\ \A w \in Upl!Uploads : uploads'[w] \in {uploads[w], Upl!NotStaged}
           /\ Upl!Staged' \subseteq Upl!Staged
<1>1. \A w \in Upl!Uploads : uploads'[w] = IF w \in us THEN Upl!NotStaged ELSE uploads[w]
  BY DEF Upl!Drop
<1>2. ASSUME NEW w \in Upl!Uploads
      PROVE  uploads'[w] \in [by : Members \cup {NoMember}, seq : 0 .. Chunks + 1]
  <2>1. Upl!NotStaged \in [by : Members \cup {NoMember}, seq : 0 .. Chunks + 1]
    BY DEF UploadBounds, Upl!NotStaged
  <2> QED
    BY <1>1, <2>1 DEF StagesOK
<1> QED
  BY <1>1, <1>2 DEF Upl!Drop, Upl!Staged

\* A page picks a file and offers it.
LEMMA PickStep ==
    ASSUME UploadBounds, UploadInv, NEW g \in Guests, Upl!Pick(g)
    PROVE  UploadInv'
<1> DEFINE k == picked[g] + 1
           f == [kind |-> "offer", guest |-> g, pick |-> k, seq |-> 0]
<1>1. /\ g \notin gone /\ current[g] = 0 /\ picked[g] < Picks
      /\ picked' = [picked EXCEPT ![g] = k] /\ picked'[g] = k
      /\ acked' = [acked EXCEPT ![g] = FALSE]
      /\ current' = [current EXCEPT ![g] = IF uplinked THEN k ELSE 0]
      /\ Upl!Up(f)
      /\ UNCHANGED <<loops, gone, uplinked, back, hosting, uploads, offered, passed, first>>
  BY DEF Upl!Pick, UploadInv, PagesOK, Upl!Publisher, Upl!traces
<1>2. k \in 1 .. Picks /\ k \in 0 .. Picks /\ 0 \in 0 .. Picks /\ picked[g] \in Nat
      /\ k > picked[g]
  BY <1>1 DEF UploadInv, PagesOK, UploadBounds
<1>3. f \in UpFrame
  BY <1>2 DEF UpFrame, Upl!UpKinds, UploadBounds
<1> HIDE DEF f
<1>4. PagesOK'
  BY <1>1, <1>2 DEF UploadInv, PagesOK
<1>5. /\ upline' \in Seq(UpFrame) /\ Len(upline') <= LineMax
      /\ upline' = upline \/ upline' = Append(upline, f)
  BY <1>1, <1>3, UplineGrows DEF UploadInv
<1>6. UploadLinesOK' /\ StagesOK'
  BY <1>1, <1>5 DEF UploadInv, UploadLinesOK, StagesOK
<1>7. <<g, k>> \in Upl!Uploads /\ UploadFresh(<<g, k>>)
  <2>1. Followed(<<g, k>>)
    BY <1>2 DEF UploadInv, UploadsFollowed, Upl!Uploads
  <2> QED
    BY <1>2, <2>1 DEF Followed, Upl!Uploads
<1> HIDE DEF k
<1>8. \A h \in Guests : \A n \in 1 .. picked[h] : n \in 1 .. picked'[h]
        /\ <<h, n>> # <<g, k>>
  <2> SUFFICES ASSUME NEW h \in Guests, NEW n \in 1 .. picked[h]
               PROVE  n \in 1 .. picked'[h] /\ <<h, n>> # <<g, k>>
    OBVIOUS
  <2>1. CASE h = g
    <3>1. picked'[h] = k /\ k \in Nat
      BY <1>1, <1>2, <2>1
    <3> QED
      BY <1>2, <2>1, <3>1
  <2>2. CASE h # g
    BY <1>1, <2>2 DEF UploadInv, PagesOK
  <2> QED
    BY <2>1, <2>2
<1>9. \A i \in DOMAIN upline : upline[i].kind = "offer" =>
          /\ upline[i].guest \in Guests /\ upline[i].pick \in 1 .. picked'[upline[i].guest]
          /\ UploadFresh(<<upline[i].guest, upline[i].pick>>)
          /\ <<upline[i].guest, upline[i].pick>> # <<g, k>>
  <2>1. \A i \in DOMAIN upline : upline[i] \in UpFrame
    BY DEF UploadInv, UploadLinesOK
  <2> QED
    BY <1>8, <2>1, FrameParts DEF UploadInv, UploadsFollowed, OffersFresh
<1>10. f.kind = "offer" /\ f.guest = g /\ f.pick = k /\ k \in 1 .. picked'[g]
  BY <1>1, <1>2 DEF f
<1>11. \A i \in DOMAIN upline' :
           \/ upline'[i] = f /\ i \notin DOMAIN upline
           \/ i \in DOMAIN upline /\ upline'[i] = upline[i]
  <2>1. upline \in Seq(UpFrame)
    BY DEF UploadInv, UploadLinesOK
  <2> HIDE DEF UpFrame
  <2>2. DOMAIN upline = 1 .. Len(upline) /\ Len(upline) \in Nat
    BY <2>1
  <2>3. upline' = Append(upline, f) => \A i \in DOMAIN upline' :
            \/ i = Len(upline) + 1 /\ upline'[i] = f
            \/ i \in DOMAIN upline /\ upline'[i] = upline[i]
    BY <1>3, <2>1
  <2> QED
    BY <1>5, <2>2, <2>3
<1>12. \A i, j \in DOMAIN upline' : i \notin DOMAIN upline
         /\ j \notin DOMAIN upline => i = j
  <2>1. upline \in Seq(UpFrame)
    BY DEF UploadInv, UploadLinesOK
  <2> HIDE DEF UpFrame
  <2>2. DOMAIN upline = 1 .. Len(upline) /\ Len(upline) \in Nat
    BY <2>1
  <2>3. upline' = Append(upline, f) => DOMAIN upline' = 1 .. Len(upline) + 1
    BY <1>3, <2>1
  <2> QED
    BY <1>5, <2>2, <2>3
<1>13. OfferedOnce(upline)'
  <2> SUFFICES ASSUME NEW i \in DOMAIN upline', NEW j \in DOMAIN upline',
                      NEW u \in Upl!Uploads,
                      Offers(upline'[i], u), Offers(upline'[j], u)
               PROVE  i = j
    BY DEF OfferedOnce
  <2>1. CASE i \in DOMAIN upline /\ j \in DOMAIN upline
    <3>1. upline'[i] = upline[i] /\ upline'[j] = upline[j]
      BY <1>11, <2>1
    <3> QED
      BY <2>1, <3>1 DEF UploadInv, UploadsFollowed, OfferedOnce
  <2>2. CASE i \notin DOMAIN upline /\ j \notin DOMAIN upline
    BY <1>12, <2>2
  <2>3. CASE i \in DOMAIN upline /\ j \notin DOMAIN upline
    BY <1>9, <1>10, <1>11, <2>3 DEF Offers
  <2>4. CASE i \notin DOMAIN upline /\ j \in DOMAIN upline
    BY <1>9, <1>10, <1>11, <2>4 DEF Offers
  <2> QED
    BY <2>1, <2>2, <2>3, <2>4
<1>14. OffersFresh(upline)'
  <2>1. \A i \in DOMAIN upline' : upline'[i].kind = "offer" =>
            /\ upline'[i].pick \in 1 .. picked'[upline'[i].guest]
            /\ UploadFresh(<<upline'[i].guest, upline'[i].pick>>)
    BY <1>7, <1>9, <1>10, <1>11
  <2> QED
    BY <1>1, <2>1 DEF OffersFresh, UploadFresh
<1>15. ASSUME NEW u \in Upl!Uploads
       PROVE  Followed(u)'
  <2>1. u[1] \in Guests /\ picked[u[1]] <= picked'[u[1]] /\ u[2] \in Nat
        /\ picked[u[1]] \in Nat /\ picked'[u[1]] \in Nat
    BY <1>1, <1>2 DEF Upl!Uploads, UploadInv, PagesOK
  <2>2. u[2] > picked'[u[1]] => u[2] > picked[u[1]]
    BY <2>1
  <2>3. Followed(u)
    BY DEF UploadInv, UploadsFollowed
  <2> QED
    BY <1>1, <2>2, <2>3 DEF Followed, InOrder, UploadFresh
<1>16. SlotsKept'
  <2>1. Upl!Staged' \subseteq Upl!Staged
    BY <1>1 DEF Upl!Staged
  <2> QED
    BY <2>1, FewerStaged DEF UploadInv
<1> QED
  BY <1>4, <1>6, <1>13, <1>14, <1>15, <1>16 DEF UploadInv, UploadsFollowed

\* The page streams, or its socket is down.
LEMMA StreamStep ==
    ASSUME UploadBounds, UploadInv, NEW g \in Guests, NEW k \in 1 .. Picks,
           Upl!Stream(g, k) \/ Upl!StreamFails(g, k)
    PROVE  UploadInv'
<1>1. /\ UNCHANGED <<picked, hosting, uploads, offered, passed, first>>
      /\ StagesOK'
  BY DEF Upl!Stream, Upl!StreamFails, Upl!ways, Upl!Publisher, Upl!traces, UploadInv,
         StagesOK
<1>2. \A n \in 0 .. Chunks : \A kind \in {"chunk", "done"} :
          Upl!Frame(kind, g, n) \in UpFrame /\ Upl!Frame(kind, g, n).kind # "offer"
  BY DEF Upl!Frame, UpFrame, Upl!UpKinds, UploadInv, PagesOK, UploadBounds
<1>3. /\ <<g, k>> \in Upl!Uploads /\ loops[<<g, k>>] \in 0 .. Chunks + 1 /\ 0 \in 0 .. Picks
      /\ 0 \in 0 .. Chunks /\ 0 \in 0 .. Chunks + 1
  <2>1. <<g, k>> \in Upl!Uploads
    BY DEF Upl!Uploads
  <2>2. 0 \in 0 .. Picks /\ 0 \in 0 .. Chunks /\ 0 \in 0 .. Chunks + 1
    BY DEF UploadBounds
  <2> QED
    BY <2>1, <2>2 DEF UploadInv, PagesOK
<1>4. CASE Upl!Stream(g, k)
  <2> DEFINE n == loops[<<g, k>>]
  <2>1. n \in Nat /\ n <= Chunks + 1
          /\ (n <= Chunks => n \in 0 .. Chunks /\ n + 1 \in 0 .. Chunks + 1)
    BY <1>3 DEF UploadBounds
  <2>2. PICK f \in UpFrame : f.kind # "offer" /\ Upl!Up(f)
    BY <1>2, <1>3, <1>4, <2>1 DEF Upl!Stream
  <2>3. PagesOK' /\ UNCHANGED <<gone, uplinked>>
    BY <1>3, <1>4, <2>1 DEF Upl!Stream, UploadInv, PagesOK
  <2>4. /\ upline' \in Seq(UpFrame) /\ Len(upline') <= LineMax
        /\ upline' = upline \/ upline' = Append(upline, f)
    BY <2>2, UplineGrows DEF UploadInv
  <2>5. UploadLinesOK'
    BY <2>3, <2>4 DEF UploadInv, UploadLinesOK
  <2> QED
    BY <1>1, <2>2, <2>3, <2>4, <2>5, PageActs DEF UploadInv
<1>5. CASE Upl!StreamFails(g, k)
  <2>1. PagesOK' /\ UploadLinesOK' /\ upline' = upline
    BY <1>3, <1>5 DEF Upl!StreamFails, Upl!ways, UploadInv, PagesOK, UploadLinesOK
  <2> QED
    BY <1>1, <2>1, PageActs DEF UploadInv
<1> QED
  BY <1>4, <1>5

\* The page gives up or hears an answer, its guest goes.
LEMMA OtherPageSteps ==
    ASSUME UploadBounds, UploadInv, NEW g \in Guests,
           Upl!Cancel(g) \/ Upl!Hear(g) \/ Upl!Gone(g)
    PROVE  UploadInv'
<1>1. /\ UNCHANGED <<picked, hosting, uploads, offered, passed, first>>
      /\ StagesOK'
  BY DEF Upl!Cancel, Upl!Hear, Upl!Gone, Upl!page, Upl!Publisher, Upl!traces, UploadInv,
         StagesOK
<1>2. /\ Upl!Frame("cancel", g, 0) \in UpFrame /\ Upl!Frame("cancel", g, 0).kind # "offer"
      /\ [kind |-> "left", guest |-> g, pick |-> 0, seq |-> 0] \in UpFrame
  BY DEF Upl!Frame, UpFrame, Upl!UpKinds, UploadInv, PagesOK, UploadBounds
<1>3. 0 \in 0 .. Picks /\ 0 \in 0 .. Chunks + 1
  BY DEF UploadBounds
<1>6. CASE Upl!Cancel(g)
  <2>1. PICK f \in UpFrame : f.kind # "offer" /\ Upl!Up(f)
    BY <1>2, <1>3, <1>6 DEF Upl!Cancel
  <2>2. PagesOK' /\ UNCHANGED <<gone, uplinked>>
    BY <1>3, <1>6 DEF Upl!Cancel, UploadInv, PagesOK
  <2>3. /\ upline' \in Seq(UpFrame) /\ Len(upline') <= LineMax
        /\ upline' = upline \/ upline' = Append(upline, f)
    BY <2>1, UplineGrows DEF UploadInv
  <2>4. UploadLinesOK'
    BY <2>2, <2>3 DEF UploadInv, UploadLinesOK
  <2> QED
    BY <1>1, <2>1, <2>2, <2>3, <2>4, PageActs DEF UploadInv
<1>7. CASE Upl!Hear(g)
  <2> DEFINE f == Head(back[g])
  <2>1. f \in BackFrame /\ Tail(back[g]) \in Seq(BackFrame)
    BY <1>7 DEF Upl!Hear, UploadInv, PagesOK
  <2>2. f.pick \in 1 .. Picks /\ <<g, f.pick>> \in Upl!Uploads
    BY <2>1 DEF BackFrame, Upl!Uploads
  <2>3. back' \in [Guests -> Seq(BackFrame)]
    BY <1>7, <2>1 DEF Upl!Hear, UploadInv, PagesOK
  <2>4. 1 \in 0 .. Chunks + 1
    BY DEF UploadBounds
  <2>5. PagesOK' /\ UploadLinesOK' /\ upline' = upline
    BY <1>1, <1>3, <1>7, <2>2, <2>3, <2>4 DEF Upl!Hear, UploadInv, PagesOK, UploadLinesOK
  <2> QED
    BY <1>1, <2>5, PageActs DEF UploadInv
<1>8. CASE Upl!Gone(g)
  <2> DEFINE f == [kind |-> "left", guest |-> g, pick |-> 0, seq |-> 0]
  <2>1. f \in UpFrame /\ f.kind # "offer" /\ Upl!Up(f)
    BY <1>2, <1>8 DEF Upl!Gone
  <2>2. PagesOK' /\ uplinked' = uplinked /\ gone' = gone \cup {g}
    BY <1>8 DEF Upl!Gone, Upl!page, UploadInv, PagesOK
  <2> HIDE DEF f
  <2>3. /\ upline' \in Seq(UpFrame) /\ Len(upline') <= LineMax
        /\ upline' = upline \/ upline' = Append(upline, f)
    BY <2>1, UplineGrows DEF UploadInv
  <2>4. UploadLinesOK'
    BY <2>2, <2>3 DEF UploadInv, UploadLinesOK
  <2> QED
    BY <1>1, <2>1, <2>2, <2>3, <2>4, PageActs DEF UploadInv
<1> QED
  BY <1>6, <1>7, <1>8

\* The publisher's line to the relay goes, or comes back.
LEMMA FlapStep ==
    ASSUME UploadBounds, UploadInv, Upl!LinkFlaps
    PROVE  UploadInv'
<1>1. UNCHANGED <<picked, current, acked, loops, gone, back, hosting, uploads, offered,
                  passed, first>>
  BY DEF Upl!LinkFlaps, Upl!page, Upl!Publisher, Upl!traces
<1>2. <<>> \in Seq(UpFrame) /\ Len(<<>>) <= LineMax
  BY DEF UploadBounds
<1>3. PagesOK' /\ UploadLinesOK' /\ StagesOK' /\ upline' = <<>>
  BY <1>1, <1>2 DEF Upl!LinkFlaps, UploadInv, PagesOK, UploadLinesOK, StagesOK
<1> QED
  BY <1>1, <1>3, PageActs DEF UploadInv

\* What is left of the line, with what the publisher knows.
AfterHead == /\ PagesOK /\ UploadLinesOK /\ StagesOK /\ UploadsFollowed /\ SlotsKept
  /\ UNCHANGED picked
        /\ upline' \in Seq(UpFrame) /\ OfferedOnce(upline') /\ OffersFresh(upline')

LEMMA UploadsDropped ==
    ASSUME UploadBounds, AfterHead, NEW us, Upl!Drop(us),
           UNCHANGED <<passed, first, offered, hosting>>
    PROVE  UploadsFollowed' /\ SlotsKept' /\ StagesOK'
<1>1. UploadsFollowed'
  <2>1. \A w \in Upl!Uploads : uploads'[w] \in {uploads[w], Upl!NotStaged}
    BY DropsOnly DEF AfterHead
  <2>2. \A w \in Upl!Uploads \ {} : /\ uploads'[w] \in {uploads[w], Upl!NotStaged}
                                    /\ passed'[w] = passed[w] /\ first'[w] = first[w]
    BY <2>1
  <2>3. {} \in SUBSET Upl!Uploads /\ (\A w \in {} : Followed(w)')
        /\ (\A i \in DOMAIN upline' : \A w \in {} : ~Offers(upline'[i], w))
    OBVIOUS
  <2> QED
    BY <2>2, <2>3, BooksAct DEF AfterHead
<1>2. SlotsKept'
  BY DropsOnly, FewerStaged DEF AfterHead
<1>3. StagesOK'
  BY DropsOnly DEF AfterHead, StagesOK
<1> QED
  BY <1>1, <1>2, <1>3

\* A step that touches one upload, staged before.
LEMMA OneUpload ==
    ASSUME AfterHead, NEW u \in Upl!Staged, Followed(u)',
           \A w \in Upl!Uploads \ {u} : /\ uploads'[w] = uploads[w]
                                        /\ passed'[w] = passed[w] /\ first'[w] = first[w]
    PROVE  UploadsFollowed'
<1>1. {u} \in SUBSET Upl!Uploads
  BY DEF Upl!Staged
<1>2. \A i \in DOMAIN upline' : \A w \in {u} : ~Offers(upline'[i], w)
  BY StagedIsKnown DEF AfterHead
<1> QED
  BY <1>1, <1>2, BooksAct DEF AfterHead

LEMMA ChunkStep ==
    ASSUME UploadBounds, AfterHead, UNCHANGED hosting, NEW u \in Upl!Staged,
           NEW n \in 0 .. Chunks,
           Upl!TakeChunk(u, n)
    PROVE  UploadsFollowed' /\ SlotsKept' /\ StagesOK'
             /\ back' \in [Guests -> Seq(BackFrame)]
<1>0. u \in Upl!Uploads /\ u[1] \in Guests /\ u[2] \in 1 .. Picks
  BY DEF Upl!Staged, Upl!Uploads
<1>1. CASE UNCHANGED <<uploads, back, offered, Upl!traces>>
  <2>1. UNCHANGED <<uploads, offered, passed, first, back>>
    BY <1>1 DEF Upl!traces
  <2>2. Followed(u)'
    BY <1>0, <2>1 DEF AfterHead, UploadsFollowed, Followed, InOrder, UploadFresh
  <2>3. UploadsFollowed'
    BY <2>1, <2>2, OneUpload
  <2>4. Upl!Staged' = Upl!Staged
    BY <2>1 DEF Upl!Staged
  <2> QED
    BY <2>1, <2>3, <2>4, FewerStaged DEF AfterHead, StagesOK, PagesOK
<1>2. CASE Upl!Aborted(u)
  <2>1. Upl!Drop({u}) /\ UNCHANGED <<passed, first, offered>> /\ Upl!Tell(u[1], "end", u[2])
    BY <1>2 DEF Upl!Aborted, Upl!traces
  <2> QED
    BY <1>0, <2>1, UploadsDropped, PageToldStep DEF AfterHead
<1>3. CASE /\ uploads[u].by # NoMember /\ Upl!InSequence(u, n)
           /\ uploads' = [uploads EXCEPT ![u].seq = @ + 1]
           /\ passed' = [passed EXCEPT ![u] = Append(@, [to |-> uploads[u].by, seq |-> n])]
           /\ UNCHANGED <<back, offered, first>>
  <2> DEFINE e == [to |-> uploads[u].by, seq |-> n]
             q == passed[u]
             b == uploads[u]
  <2>1. /\ b \in [by : Members \cup {NoMember}, seq : 0 .. Chunks + 1]
        /\ q \in Seq([to : Members, seq : 0 .. Chunks]) /\ b.by \in Members
        /\ e \in [to : Members, seq : 0 .. Chunks]
    BY <1>0, <1>3 DEF AfterHead, StagesOK
  <2>2. /\ n = b.seq + 1 /\ n <= Chunks /\ b.seq \in Nat /\ n \in Nat
        /\ n \in 0 .. Chunks + 1
    BY <1>3, <2>1 DEF Upl!InSequence, UploadBounds
  <2>3. Followed(u)
    BY <1>0 DEF AfterHead, UploadsFollowed
  <2>4. /\ first[u] = b.by /\ Len(q) = b.seq /\ \A i \in DOMAIN q : q[i].seq = i
        /\ \A i \in DOMAIN q : q[i].to = first[u]
    BY <1>3, <2>3 DEF Followed, InOrder
  <2>5. /\ Append(q, e) \in Seq([to : Members, seq : 0 .. Chunks])
        /\ Len(Append(q, e)) = n
        /\ \A i \in DOMAIN Append(q, e) :
               \/ i = n /\ Append(q, e)[i] = e
               \/ i \in DOMAIN q /\ Append(q, e)[i] = q[i]
    <3> HIDE DEF e, q, b
    <3> QED
      BY <2>1, <2>2, <2>4
  <2>6. /\ uploads'[u].by = b.by /\ uploads'[u].seq = n /\ passed'[u] = Append(q, e)
        /\ first' = first /\ offered' = offered /\ back' = back
        /\ \A w \in Upl!Uploads \ {u} : uploads'[w] = uploads[w] /\ passed'[w] = passed[w]
    BY <1>0, <1>3, <2>2 DEF AfterHead, StagesOK
  <2>7. uploads' \in [Upl!Uploads -> [by : Members \cup {NoMember}, seq : 0 .. Chunks + 1]]
        /\ passed' \in [Upl!Uploads -> Seq([to : Members, seq : 0 .. Chunks])]
    <3>1. uploads' = [uploads EXCEPT ![u] = [b EXCEPT !.seq = n]]
      BY <1>3, <2>2
    <3>2. [b EXCEPT !.seq = n] \in [by : Members \cup {NoMember}, seq : 0 .. Chunks + 1]
      BY <2>1, <2>2
    <3>3. passed' = [passed EXCEPT ![u] = Append(q, e)]
      BY <1>3
    <3> HIDE DEF q, e, b
    <3> QED
      BY <1>0, <2>5, <3>1, <3>2, <3>3 DEF AfterHead, StagesOK
  <2>8. e.to = first[u] /\ e.seq = n
    BY <2>4
  <2> HIDE DEF e, q, b
  <2>9. \A i \in DOMAIN passed'[u] : passed'[u][i].to = first'[u] /\ passed'[u][i].seq = i
    BY <2>4, <2>5, <2>6, <2>8
  <2>10. u[2] > picked'[u[1]] => FALSE
    <3>1. ~UploadFresh(u)
      BY DEF UploadFresh, Upl!Staged
    <3> QED
      BY <2>3, <3>1 DEF AfterHead, Followed
  <2>11. Followed(u)'
    BY <1>3, <2>2, <2>4, <2>5, <2>6, <2>9, <2>10 DEF Followed, InOrder, UploadFresh, b
  <2>12. UploadsFollowed'
    BY <2>6, <2>11, OneUpload
  <2>13. Upl!Staged' \subseteq Upl!Staged
    BY <2>6 DEF Upl!Staged
  <2> QED
    BY <2>6, <2>7, <2>12, <2>13, FewerStaged DEF AfterHead, StagesOK, PagesOK
<1> QED
  BY <1>1, <1>2, <1>3 DEF Upl!TakeChunk

LEMMA DoneStep ==
    ASSUME UploadBounds, AfterHead, UNCHANGED hosting, NEW u \in Upl!Staged, Upl!TakeDone(u)
    PROVE  UploadsFollowed' /\ SlotsKept' /\ StagesOK'
             /\ back' \in [Guests -> Seq(BackFrame)]
<1>0. u \in Upl!Uploads /\ u[1] \in Guests /\ u[2] \in 1 .. Picks
  BY DEF Upl!Staged, Upl!Uploads
<1>1. CASE UNCHANGED <<uploads, back, offered, Upl!traces>>
  <2>1. UNCHANGED <<uploads, offered, passed, first, back>>
    BY <1>1 DEF Upl!traces
  <2>2. Followed(u)'
    BY <1>0, <2>1 DEF AfterHead, UploadsFollowed, Followed, InOrder, UploadFresh
  <2>3. UploadsFollowed'
    BY <2>1, <2>2, OneUpload
  <2>4. Upl!Staged' = Upl!Staged
    BY <2>1 DEF Upl!Staged
  <2> QED
    BY <2>1, <2>3, <2>4, FewerStaged DEF AfterHead, StagesOK, PagesOK
<1>2. CASE uploads[u].by # NoMember /\ Upl!Drop({u})
             /\ UNCHANGED <<passed, back, offered, first>>
  BY <1>2, UploadsDropped DEF AfterHead, PagesOK
<1>3. CASE /\ uploads[u].by # NoMember /\ Upl!Drop({u}) /\ UNCHANGED <<offered, first>>
           /\ passed' = [passed EXCEPT ![u] = Append(@, [to |-> uploads[u].by, seq |-> 0])]
           /\ Upl!Tell(u[1], "end", u[2])
  <2> DEFINE e == [to |-> uploads[u].by, seq |-> 0]
             q == passed[u]
             b == uploads[u]
  <2>1. /\ b \in [by : Members \cup {NoMember}, seq : 0 .. Chunks + 1]
        /\ q \in Seq([to : Members, seq : 0 .. Chunks]) /\ b.by \in Members
    BY <1>0, <1>3 DEF AfterHead, StagesOK
  <2>2. e \in [to : Members, seq : 0 .. Chunks]
    BY <2>1 DEF UploadBounds
  <2>3. Followed(u)
    BY <1>0 DEF AfterHead, UploadsFollowed
  <2>4. /\ first[u] = b.by /\ \A i \in DOMAIN q : q[i].seq = i
        /\ \A i \in DOMAIN q : q[i].to = first[u]
    BY <1>3, <2>3 DEF Followed, InOrder
  <2>5. /\ Append(q, e) \in Seq([to : Members, seq : 0 .. Chunks])
        /\ \A i \in DOMAIN Append(q, e) :
               \/ i = Len(Append(q, e)) /\ Append(q, e)[i] = e
               \/ i \in DOMAIN q /\ Append(q, e)[i] = q[i]
    <3> HIDE DEF e, q, b
    <3> QED
      BY <2>1, <2>2
  <2>6. /\ uploads'[u] = Upl!NotStaged /\ passed'[u] = Append(q, e) /\ first' = first
        /\ \A w \in Upl!Uploads \ {u} : uploads'[w] = uploads[w] /\ passed'[w] = passed[w]
    BY <1>0, <1>3 DEF AfterHead, StagesOK, Upl!Drop
  <2>7. /\ uploads' \in [Upl!Uploads -> [by : Members \cup {NoMember}, seq :
             0 .. Chunks + 1]]
        /\ Upl!Staged' \subseteq Upl!Staged
    BY <1>3, DropsOnly DEF AfterHead
  <2>8. passed' \in [Upl!Uploads -> Seq([to : Members, seq : 0 .. Chunks])]
    <3>1. passed' = [passed EXCEPT ![u] = Append(q, e)]
      BY <1>3
    <3> HIDE DEF q, e, b
    <3> QED
      BY <1>0, <2>5, <3>1 DEF AfterHead, StagesOK
  <2>9. e.to = first[u] /\ e.seq = 0
    BY <2>4
  <2> HIDE DEF e, q, b
  <2>10. InOrder(u)'
    BY <2>4, <2>5, <2>6, <2>9 DEF InOrder
  <2>11. u[2] > picked'[u[1]] => FALSE
    <3>1. ~UploadFresh(u)
      BY DEF UploadFresh, Upl!Staged
    <3> QED
      BY <2>3, <3>1 DEF AfterHead, Followed
  <2>12. Followed(u)'
    BY <2>6, <2>10, <2>11 DEF Followed, UploadFresh, Upl!NotStaged
  <2>13. UploadsFollowed'
    BY <2>6, <2>12, OneUpload
  <2>14. back' \in [Guests -> Seq(BackFrame)]
    BY <1>0, <1>3, PageToldStep DEF AfterHead
  <2>15. StagesOK'
    BY <1>3, <2>7, <2>8 DEF AfterHead, StagesOK
  <2> QED
    BY <2>7, <2>13, <2>14, <2>15, FewerStaged DEF AfterHead
<1> QED
  BY <1>1, <1>2, <1>3 DEF Upl!TakeDone

\* An offer that is taken up is the first of its upload.
LEMMA OfferStep ==
    ASSUME UploadBounds, AfterHead, UNCHANGED hosting, NEW u \in Upl!Uploads,
           UploadFresh(u),
           u[2] \in 1 .. picked[u[1]],
           \A i \in DOMAIN upline' : ~Offers(upline'[i], u), Upl!TakeOffer(u)
    PROVE  UploadsFollowed' /\ SlotsKept' /\ StagesOK'
             /\ back' \in [Guests -> Seq(BackFrame)]
<1>0. u[1] \in Guests /\ u[2] \in 1 .. Picks /\ UNCHANGED <<passed, first>>
  BY DEF Upl!Uploads, Upl!TakeOffer, Upl!traces
<1>1. PICK old \in SUBSET Upl!Staged :
          LET left == Upl!Staged \ old
              mine == {w \in left : w[1] = u[1]}
              full == \/ Upl!Cardinality(mine) >= WEB_UPLOAD_PER_VIEWER
                      \/ Upl!Cardinality(left) >= WEB_UPLOAD_PER_ROOM
          IN  IF full THEN Upl!Drop(old) /\ Upl!Tell(u[1], "end", u[2]) /\ UNCHANGED offered
              ELSE /\ uploads' = [w \in Upl!Uploads |->
                         IF w = u THEN [by |-> NoMember, seq |-> 0]
                         ELSE IF w \in old THEN Upl!NotStaged ELSE uploads[w]]
                   /\ offered' = IF hosting THEN offered \cup {u} ELSE offered
                   /\ UNCHANGED back
  BY DEF Upl!TakeOffer
<1> DEFINE left == Upl!Staged \ old
           mine == {w \in left : w[1] = u[1]}
           full == \/ Upl!Cardinality(mine) >= WEB_UPLOAD_PER_VIEWER
                   \/ Upl!Cardinality(left) >= WEB_UPLOAD_PER_ROOM
           new == [by |-> NoMember, seq |-> 0]
<1>2. CASE full
  <2>1. Upl!Drop(old) /\ Upl!Tell(u[1], "end", u[2]) /\ UNCHANGED offered
    BY <1>1, <1>2
  <2> QED
    BY <1>0, <2>1, UploadsDropped, PageToldStep DEF AfterHead
<1>3. CASE ~full
  <2>1. /\ uploads' = [w \in Upl!Uploads |->
               IF w = u THEN new ELSE IF w \in old THEN Upl!NotStaged ELSE uploads[w]]
        /\ offered' = IF hosting THEN offered \cup {u} ELSE offered
        /\ UNCHANGED back
    BY <1>1, <1>3
  <2>2. /\ new \in [by : Members \cup {NoMember}, seq : 0 .. Chunks + 1]
             /\ new # Upl!NotStaged
        /\ Upl!NotStaged \in [by : Members \cup {NoMember}, seq : 0 .. Chunks + 1]
        /\ new.by = NoMember /\ new.seq = 0
    BY DEF UploadBounds, Upl!NotStaged
  <2>3. Upl!IsFiniteSet(left) /\ Upl!Cardinality(left) \in Nat /\ left \subseteq Upl!Staged
    BY CountSub DEF AfterHead, SlotsKept
  <2>4. Upl!IsFiniteSet(mine) /\ Upl!Cardinality(mine) \in Nat /\ mine \subseteq left
    <3>1. mine \in SUBSET left
      OBVIOUS
    <3> HIDE DEF left, mine
    <3> QED
      BY <2>3, <3>1, CountSub
  <2>5. Upl!Cardinality(mine) < WEB_UPLOAD_PER_VIEWER
          /\ Upl!Cardinality(left) < WEB_UPLOAD_PER_ROOM
    <3> HIDE DEF left, mine
    <3> QED
      BY <1>3, <2>3, <2>4 DEF UploadBounds
  <2> HIDE DEF new
  <2>6. StagesOK'
    BY <1>0, <2>1, <2>2 DEF AfterHead, StagesOK
  <2>7. uploads'[u] = new
          /\ \A w \in Upl!Uploads \ {u} : uploads'[w] \in {uploads[w], Upl!NotStaged}
    BY <2>1
  <2>8. Followed(u)'
    <3>1. passed'[u] = <<>> /\ first'[u] = NoMember
      BY <1>0 DEF UploadFresh
    <3>2. u[1] \in Guests /\ u[2] \in Nat /\ picked'[u[1]] \in Nat /\ u[2] <= picked'[u[1]]
      BY <1>0 DEF AfterHead, PagesOK
    <3>3. ~ (u[2] > picked'[u[1]])
      BY <3>2
    <3> QED
      BY <2>2, <2>7, <3>1, <3>3 DEF Followed, InOrder
  <2>9. UploadsFollowed'
    <3>1. {u} \in SUBSET Upl!Uploads /\ (\A w \in {u} : Followed(w)')
          /\ \A i \in DOMAIN upline' : \A w \in {u} : ~Offers(upline'[i], w)
      BY <2>8
    <3>2. \A w \in Upl!Uploads \ {u} : /\ uploads'[w] \in {uploads[w], Upl!NotStaged}
                                       /\ passed'[w] = passed[w] /\ first'[w] = first[w]
      BY <1>0, <2>7
    <3> QED
      BY <3>1, <3>2, BooksAct DEF AfterHead
  <2>10. Upl!Staged' = left \cup {u}
    BY <2>1, <2>2 DEF Upl!Staged
  <2>11. Upl!IsFiniteSet(Upl!Staged') /\ Upl!Cardinality(Upl!Staged') <= WEB_UPLOAD_PER_ROOM
    <3> HIDE DEF left
    <3>1. /\ Upl!IsFiniteSet(left \cup {u})
               /\ Upl!Cardinality(left \cup {u}) <= Upl!Cardinality(left) + 1
          /\ Upl!Cardinality(left \cup {u}) \in Nat
      BY <2>3, CountAdd
    <3>2. Upl!Cardinality(left \cup {u}) <= WEB_UPLOAD_PER_ROOM
      BY <2>3, <2>5, <3>1 DEF UploadBounds
    <3> QED
      BY <2>10, <3>1, <3>2
  <2>12. ASSUME NEW g \in Guests
         PROVE  Upl!Cardinality({w \in Upl!Staged' : w[1] = g}) <= WEB_UPLOAD_PER_VIEWER
    <3> DEFINE S == {w \in Upl!Staged' : w[1] = g}
               T == {w \in Upl!Staged : w[1] = g}
    <3>1. CASE g = u[1]
      <4>1. S = mine \cup {u}
        BY <2>10, <3>1
      <4> HIDE DEF mine, S
      <4>2. /\ Upl!Cardinality(mine \cup {u}) <= Upl!Cardinality(mine) + 1
            /\ Upl!Cardinality(mine \cup {u}) \in Nat
        BY <2>4, CountAdd
      <4>3. Upl!Cardinality(mine \cup {u}) <= WEB_UPLOAD_PER_VIEWER
        BY <2>4, <2>5, <4>2 DEF UploadBounds
      <4>4. Upl!Cardinality(S) <= WEB_UPLOAD_PER_VIEWER
        BY <4>1, <4>3
      <4> QED
        BY <4>4 DEF S
    <3>2. CASE g # u[1]
      <4>1. S \subseteq T /\ T \subseteq Upl!Staged
        BY <2>10, <3>2
      <4>2. Upl!Cardinality(T) <= WEB_UPLOAD_PER_VIEWER
        BY DEF AfterHead, SlotsKept, Upl!SlotsBounded
      <4> HIDE DEF S, T
      <4>3. Upl!IsFiniteSet(T) /\ Upl!Cardinality(T) \in Nat
        BY <4>1, CountSub DEF AfterHead, SlotsKept
      <4>4. Upl!Cardinality(S) <= Upl!Cardinality(T) /\ Upl!Cardinality(S) \in Nat
        BY <4>1, <4>3, CountSub
      <4>5. Upl!Cardinality(S) <= WEB_UPLOAD_PER_VIEWER
        BY <4>2, <4>3, <4>4 DEF UploadBounds
      <4> QED
        BY <4>5 DEF S
    <3> QED
      BY <3>1, <3>2
  <2>13. SlotsKept'
    BY <2>11, <2>12 DEF SlotsKept, Upl!SlotsBounded
  <2> QED
    BY <2>1, <2>6, <2>9, <2>13 DEF AfterHead, PagesOK
<1> QED
  BY <1>2, <1>3

LEMMA UploadTakes ==
    ASSUME UploadBounds, UploadInv, Upl!TakeLine
    PROVE  UploadInv'
<1> DEFINE f == Head(upline)
           u == <<f.guest, f.pick>>
<1>1. /\ upline # <<>> /\ upline' = Tail(upline)
      /\ UNCHANGED <<picked, current, acked, loops, gone, uplinked, hosting>>
  BY DEF Upl!TakeLine, Upl!page
<1>2. /\ OfferedOnce(upline') /\ OffersFresh(upline') /\ upline' \in Seq(UpFrame)
      /\ f \in UpFrame /\ Len(upline') + 1 = Len(upline)
      /\ \A i \in DOMAIN upline' : \A w \in Upl!Uploads :
             ~ (Offers(f, w) /\ Offers(upline'[i], w))
      /\ f.kind = "offer" => f.pick \in 1 .. picked[f.guest] /\ UploadFresh(u)
  BY <1>1, OffersTail DEF UploadInv, UploadLinesOK, UploadsFollowed
<1>3. AfterHead
  BY <1>1, <1>2 DEF UploadInv, AfterHead
<1>4. UploadLinesOK'
  <2>1. Len(upline) <= LineMax /\ Len(upline') \in Nat /\ Len(upline) \in Nat
    BY <1>2 DEF UploadInv, UploadLinesOK
  <2>2. Len(upline') <= LineMax
    BY <1>2, <2>1 DEF UploadBounds
  <2> QED
    BY <1>1, <1>2, <2>2 DEF UploadInv, UploadLinesOK
<1>5. /\ f.guest \in Guests /\ f.pick \in 0 .. Picks /\ f.seq \in 0 .. Chunks
      /\ f.kind \in Upl!UpKinds /\ (f.pick # 0 => u \in Upl!Uploads)
  BY <1>2, FrameParts
<1>6. \/ f.kind = "left" /\ Upl!Drop({f.guest} \X (1 .. Picks))
           /\ UNCHANGED <<back, offered, Upl!traces>>
      \/ f.kind # "left" /\ f.pick = 0 /\ UNCHANGED <<uploads, back, offered, Upl!traces>>
      \/ f.kind = "offer"
           /\ (IF u \in Upl!Staged THEN UNCHANGED <<uploads, back, offered, Upl!traces>>
                              ELSE Upl!TakeOffer(u))
      \/ f.kind = "cancel" /\ f.pick # 0 /\ Upl!Drop({u})
           /\ UNCHANGED <<back, offered, Upl!traces>>
      \/ /\ f.kind \in {"chunk", "done"} /\ f.pick # 0
         /\ IF u \notin Upl!Staged THEN UNCHANGED <<uploads, back, offered, Upl!traces>>
            ELSE IF f.kind = "chunk" THEN Upl!TakeChunk(u, f.seq) ELSE Upl!TakeDone(u)
  BY DEF Upl!TakeLine
<1> HIDE DEF f, u
<1>7. ASSUME UNCHANGED <<uploads, back, offered, Upl!traces>>
      PROVE  UploadsFollowed' /\ SlotsKept' /\ StagesOK'
               /\ back' \in [Guests -> Seq(BackFrame)]
  <2>1. \A w \in Upl!Uploads : uploads[w] \in {uploads[w], Upl!NotStaged}
    OBVIOUS
  <2>2. \A w \in Upl!Uploads \ {} : /\ uploads'[w] \in {uploads[w], Upl!NotStaged}
                                    /\ passed'[w] = passed[w] /\ first'[w] = first[w]
    BY <1>7 DEF Upl!traces
  <2>3. {} \in SUBSET Upl!Uploads /\ (\A w \in {} : Followed(w)')
        /\ (\A i \in DOMAIN upline' : \A w \in {} : ~Offers(upline'[i], w))
    OBVIOUS
  <2>4. UploadsFollowed'
    BY <1>3, <2>2, <2>3, BooksAct DEF AfterHead
  <2>5. Upl!Staged' = Upl!Staged
    BY <1>7 DEF Upl!Staged
  <2> QED
    BY <1>1, <1>3, <1>7, <2>4, <2>5, FewerStaged DEF AfterHead, StagesOK, PagesOK,
                                                     Upl!traces
<1>8. ASSUME NEW us, Upl!Drop(us), UNCHANGED <<back, offered, Upl!traces>>
      PROVE  UploadsFollowed' /\ SlotsKept' /\ StagesOK'
               /\ back' \in [Guests -> Seq(BackFrame)]
  <2>1. UNCHANGED <<passed, first, offered, hosting, back>>
    BY <1>1, <1>8 DEF Upl!traces
  <2> QED
    BY <1>3, <1>8, <2>1, UploadsDropped DEF AfterHead, PagesOK
<1>9. ASSUME f.kind = "offer", f.pick # 0, Upl!TakeOffer(u)
      PROVE  UploadsFollowed' /\ SlotsKept' /\ StagesOK'
               /\ back' \in [Guests -> Seq(BackFrame)]
  <2>1. u \in Upl!Uploads /\ UploadFresh(u) /\ u[2] \in 1 .. picked[u[1]]
    BY <1>2, <1>5, <1>9 DEF u
  <2>2. \A i \in DOMAIN upline' : ~Offers(upline'[i], u)
    <3>1. Offers(f, u)
      BY <1>9 DEF Offers, u
    <3> QED
      BY <1>2, <2>1, <3>1
  <2> QED
    BY <1>1, <1>3, <1>9, <2>1, <2>2, OfferStep
<1>10. f.kind = "offer" => f.pick # 0
  <2>1. f.kind = "offer" => picked[f.guest] \in Nat /\ f.pick \in 1 .. picked[f.guest]
    BY <1>2, <1>5 DEF UploadInv, PagesOK
  <2> QED
    BY <2>1
<1>11. UploadsFollowed' /\ SlotsKept' /\ StagesOK' /\ back' \in [Guests -> Seq(BackFrame)]
  BY <1>1, <1>3, <1>5, <1>6, <1>7, <1>8, <1>9, <1>10, ChunkStep, DoneStep
<1>12. PagesOK'
  BY <1>1, <1>11 DEF UploadInv, PagesOK
<1> QED
  BY <1>4, <1>11, <1>12 DEF UploadInv

\* Whoever declines.
LEMMA DeclineStep ==
    ASSUME UploadBounds, UploadInv, NEW u \in Upl!Uploads, Upl!Decline(u)
    PROVE  UploadInv'
<1>0. u[1] \in Guests /\ u[2] \in 1 .. Picks
  BY DEF Upl!Uploads
<1>1. /\ UNCHANGED <<picked, current, acked, loops, gone, uplinked, upline, hosting>>
      /\ UNCHANGED <<offered, passed, first>> /\ UploadLinesOK'
  BY DEF Upl!Decline, Upl!page, Upl!traces, UploadInv, UploadLinesOK
<1>2. AfterHead
  BY <1>1 DEF UploadInv, AfterHead, UploadLinesOK, UploadsFollowed
<1>3. Upl!Drop({u}) /\ Upl!Tell(u[1], "end", u[2])
  BY DEF Upl!Decline
<1>4. back' \in [Guests -> Seq(BackFrame)]
  BY <1>0, <1>3, PageToldStep DEF UploadInv
<1> QED
  BY <1>1, <1>2, <1>3, <1>4, UploadsDropped DEF UploadInv, PagesOK

\* A member accepts.
LEMMA AcceptStep ==
    ASSUME UploadBounds, UploadInv, NEW u \in Upl!Uploads, NEW m \in Members,
           Upl!Accept(u, m)
    PROVE  UploadInv'
<1>0. u[1] \in Guests /\ u[2] \in 1 .. Picks /\ u \in Upl!Staged
  BY DEF Upl!Uploads, Upl!Accept
<1>1. /\ UNCHANGED <<picked, current, acked, loops, gone, uplinked, upline, hosting>>
      /\ UNCHANGED <<offered, passed>> /\ UploadLinesOK'
  BY DEF Upl!Accept, Upl!page, UploadInv, UploadLinesOK
<1>2. AfterHead
  BY <1>1 DEF UploadInv, AfterHead, UploadLinesOK, UploadsFollowed
<1>3. /\ uploads[u].by = NoMember /\ uploads' = [uploads EXCEPT ![u].by = m]
      /\ first' = [first EXCEPT ![u] = IF @ = NoMember THEN m ELSE @]
      /\ Upl!Tell(u[1], "ack", u[2])
  BY DEF Upl!Accept, Upl!Accepted
<1>4. back' \in [Guests -> Seq(BackFrame)]
  BY <1>0, <1>3, PageToldStep DEF UploadInv
<1>5. /\ uploads[u] \in [by : Members \cup {NoMember}, seq : 0 .. Chunks + 1]
      /\ Followed(u) /\ uploads[u] # Upl!NotStaged
  BY <1>0 DEF UploadInv, StagesOK, UploadsFollowed, Upl!Staged
<1>6. passed[u] = <<>> /\ uploads[u].seq = 0 /\ first[u] = NoMember
  BY <1>3, <1>5 DEF Followed
<1>7. /\ uploads'[u].by = m /\ uploads'[u].seq = 0 /\ first'[u] = m /\ passed'[u] = <<>>
      /\ \A w \in Upl!Uploads \ {u} : uploads'[w] = uploads[w] /\ first'[w] = first[w]
                                      /\ passed'[w] = passed[w]
  BY <1>1, <1>3, <1>6 DEF UploadInv, StagesOK
<1>8. uploads' \in [Upl!Uploads -> [by : Members \cup {NoMember}, seq : 0 .. Chunks + 1]]
      /\ first' \in [Upl!Uploads -> Members \cup {NoMember}]
  <2>1. [uploads[u] EXCEPT !.by = m]
          \in [by : Members \cup {NoMember}, seq : 0 .. Chunks + 1]
    BY <1>5
  <2>2. uploads' = [uploads EXCEPT ![u] = [uploads[u] EXCEPT !.by = m]]
    BY <1>3
  <2> QED
    BY <1>3, <2>1, <2>2 DEF UploadInv, StagesOK
<1>9. Followed(u)'
  <2>1. ~ (u[2] > picked'[u[1]])
    <3>1. ~UploadFresh(u)
      BY <1>5 DEF UploadFresh
    <3> QED
      BY <1>1, <1>5, <3>1 DEF Followed
  <2>2. m # NoMember /\ Len(<<>>) = 0 /\ DOMAIN <<>> = {}
    BY DEF UploadBounds
  <2> QED
    BY <1>7, <2>1, <2>2 DEF Followed, InOrder
<1>10. UploadsFollowed'
  BY <1>0, <1>2, <1>7, <1>9, OneUpload
<1>11. Upl!Staged' \subseteq Upl!Staged
  BY <1>0, <1>7 DEF Upl!Staged
<1> QED
  BY <1>1, <1>4, <1>8, <1>10, <1>11, FewerStaged DEF UploadInv, PagesOK, StagesOK

\* One step of a page, the relay, the publisher or a member.
LEMMA UploadStep ==
    ASSUME UploadBounds, UploadInv, [Upl!Next]_(Upl!uploadVars)
    PROVE  UploadInv'
<1>1. ASSUME UNCHANGED <<Upl!page, Upl!ways, uploads, offered, Upl!traces>>,
             hosting' \in BOOLEAN
      PROVE  UploadInv'
  <2>1. UNCHANGED <<picked, current, acked, loops, gone, uplinked, upline, back, uploads,
                    offered, passed, first>>
    BY <1>1 DEF Upl!page, Upl!ways, Upl!traces
  <2>2. PagesOK' /\ UploadLinesOK' /\ StagesOK'
    BY <1>1, <2>1 DEF UploadInv, PagesOK, UploadLinesOK, StagesOK
  <2> QED
    BY <2>1, <2>2, PageActs DEF UploadInv
<1>2. CASE UNCHANGED Upl!uploadVars
  BY <1>1, <1>2 DEF Upl!uploadVars, UploadInv, StagesOK
<1>3. CASE Upl!RoomFlaps
  BY <1>1, <1>3 DEF Upl!RoomFlaps
<1>4. ASSUME NEW g \in Guests, Upl!Pick(g)
      PROVE  UploadInv'
  BY <1>4, PickStep
<1>5. ASSUME NEW g \in Guests, Upl!Cancel(g) \/ Upl!Hear(g) \/ Upl!Gone(g)
      PROVE  UploadInv'
  BY <1>5, OtherPageSteps
<1>6. ASSUME NEW g \in Guests, NEW k \in 1 .. Picks,
             Upl!Stream(g, k) \/ Upl!StreamFails(g, k)
      PROVE  UploadInv'
  BY <1>6, StreamStep
<1>7. CASE Upl!TakeLine
  BY <1>7, UploadTakes
<1>8. ASSUME NEW u \in Upl!Uploads, NEW m \in Members, Upl!Accept(u, m)
      PROVE  UploadInv'
  BY <1>8, AcceptStep
<1>9. ASSUME NEW u \in Upl!Uploads, Upl!Decline(u)
      PROVE  UploadInv'
  BY <1>9, DeclineStep
<1>10. CASE Upl!LinkFlaps
  BY <1>10, FlapStep
<1> QED
  BY <1>2, <1>3, <1>4, <1>5, <1>6, <1>7, <1>8, <1>9, <1>10 DEF Upl!Next

----------------------------------------------------------------------------
(* WebShare. *)

\* The bounds on rooms and keys are numbers, and there is a key.
ShareBounds == MaxRooms \in Nat /\ MaxKeys \in Nat \ {0}

\* Rooms are numbered as they are made; there is a slug once the first is, and
\* until then nobody asks for another.
RoomsNumbered ==
    /\ live \subseteq 1 .. made_rooms
    /\ slug <= made_rooms
    /\ run \in {"new", "register"} => slug = Share!NoSlug
    /\ run \in {"new", "register", "refused", "banner"} => thread = "none"
    /\ run \notin {"new", "register", "refused"} => slug \in Share!Slugs
    /\ thread = "made" => made_slug \in Share!Slugs /\ made_slug <= made_rooms

\* A room is replaced only after the relay has lost it.
RoomReplaced == thread \in {"sent", "made"} => slug \notin live

\* The socket is that of the known room, and none is open while one is asked
\* for; the link is that of the known room until the thread learns another.
LinkCurrent ==
    /\ publishing # Share!NoSlug => run = "running" /\ thread = "none" /\ publishing = slug
    /\ run = "running" /\ thread # "learned" /\ ~unwritten =>
           share_file = slug /\ links[slug] = key

ShareInv == Share!TypeOK /\ RoomsNumbered /\ RoomReplaced /\ LinkCurrent
  /\ Share!RoomsAccounted

LEMMA ShareStart ==
    ASSUME ShareBounds, Share!Init
    PROVE  ShareInv
<1>1. Share!TypeOK
  <2>1. links \in [Share!Slugs -> 0 .. MaxKeys] /\ key \in 0 .. MaxKeys
          /\ made_rooms \in 0 .. MaxRooms
    BY DEF ShareBounds, Share!Init, Share!Slugs
  <2>2. live \subseteq Share!Slugs /\ stray \subseteq Share!Slugs
    BY DEF Share!Init
  <2> QED
    BY <2>1, <2>2 DEF Share!Init, Share!TypeOK
<1>2. RoomsNumbered /\ RoomReplaced /\ LinkCurrent /\ Share!RoomsAccounted
  BY DEF Share!Init, RoomsNumbered, RoomReplaced, LinkCurrent, Share!RoomsAccounted,
         Share!Slugs, Share!NoSlug
<1> QED
  BY <1>1, <1>2 DEF ShareInv

LEMMA ShareOpens ==
    ASSUME ShareInv
    PROVE  Share!LinkOpens
BY DEF ShareInv, LinkCurrent, Share!LinkOpens

\* A link that is written is that of the key and slug it is written for.
LEMMA LinkWritten ==
    ASSUME ShareInv, NEW s \in Share!Slugs, NEW k \in 0 .. MaxKeys,
           Share!WriteShareFile(s, k)
    PROVE  /\ share_file' \in Share!Slugs \cup {Share!NoSlug} /\ unwritten' \in BOOLEAN
           /\ links' \in [Share!Slugs -> 0 .. MaxKeys]
           /\ ~unwritten' => share_file' = s /\ links'[s] = k
BY DEF ShareInv, Share!TypeOK, Share!WriteShareFile

\* A room the relay makes is a new one.
LEMMA RoomIsNew ==
    ASSUME ShareBounds, made_rooms \in 0 .. MaxRooms, live \subseteq 1 .. made_rooms,
           Share!Make
    PROVE  /\ made_rooms' \in 1 .. MaxRooms /\ made_rooms <= made_rooms'
                /\ made_rooms' \notin 1 .. made_rooms
           /\ live' \subseteq 1 .. made_rooms' /\ live' \subseteq 1 .. MaxRooms
           /\ live' = live \cup {made_rooms'}
<1>1. made_rooms \in Nat /\ made_rooms' = made_rooms + 1 /\ made_rooms < MaxRooms
        /\ live' = live \cup {made_rooms'}
  BY DEF Share!Make
<1>2. made_rooms' \in 1 .. MaxRooms /\ made_rooms <= made_rooms'
        /\ made_rooms' \notin 1 .. made_rooms
  BY <1>1 DEF ShareBounds
<1>3. \A n \in 1 .. made_rooms : n \in 1 .. made_rooms'
  BY <1>1
<1>4. \A n \in 1 .. made_rooms' : n \in 1 .. MaxRooms
  BY <1>1, <1>2 DEF ShareBounds
<1>5. made_rooms' \in 1 .. made_rooms'
  BY <1>1
<1> QED
  BY <1>1, <1>2, <1>3, <1>4, <1>5

\* One step of the publisher, its thread or the relay.
LEMMA ShareStep ==
    ASSUME ShareBounds, ShareInv, [Share!Next]_(Share!vars)
    PROVE  ShareInv'
<1> USE DEF ShareInv, ShareBounds, Share!Slugs, Share!NoSlug
<1>1. CASE UNCHANGED Share!vars
  BY <1>1 DEF Share!vars, Share!TypeOK, RoomsNumbered, RoomReplaced, LinkCurrent,
              Share!RoomsAccounted
<1>2. CASE Share!Preflight
  BY <1>2 DEF Share!Preflight, Share!asking, Share!links, Share!relay, Share!TypeOK,
              RoomsNumbered, RoomReplaced, LinkCurrent,
     Share!RoomsAccounted
<1>3. CASE Share!Register
  <2>0. /\ made_rooms \in Nat /\ live \subseteq 1 .. made_rooms /\ slug = 0
             /\ thread = "none"
        /\ publishing = 0 /\ live \subseteq stray
    BY <1>3 DEF Share!Register, Share!TypeOK, RoomsNumbered, LinkCurrent,
                Share!RoomsAccounted
  <2>1. /\ made_rooms' \in 0 .. MaxRooms /\ live' \subseteq 1 .. made_rooms'
        /\ live' \subseteq 1 .. MaxRooms /\ stray' \subseteq 1 .. MaxRooms
        /\ \/ slug' = made_rooms' /\ slug' \in 1 .. MaxRooms /\ run' = "banner"
              /\ live' = live \cup {slug'} /\ stray' = stray
           \/ slug' = 0 /\ run' = "refused" /\ live' \subseteq stray'
    <3>1. CASE /\ run' = "refused"
               /\ UNCHANGED <<slug, Share!relay, stray>>
      BY <2>0, <3>1 DEF Share!relay, Share!TypeOK
    <3>2. CASE Share!Make /\ slug' = made_rooms' /\ run' = "banner" /\ UNCHANGED stray
      BY <2>0, <3>2, RoomIsNew DEF Share!TypeOK
    <3>3. CASE Share!Make /\ stray' = stray \cup {made_rooms'} /\ run' = "refused"
                 /\ UNCHANGED slug
      <4>1. /\ made_rooms' \in 1 .. MaxRooms /\ live' = live \cup {made_rooms'}
            /\ live' \subseteq 1 .. made_rooms' /\ live' \subseteq 1 .. MaxRooms
        BY <2>0, <3>3, RoomIsNew DEF Share!TypeOK
      <4>2. live' \subseteq stray' /\ stray' \subseteq 1 .. MaxRooms /\ slug' = 0
        BY <2>0, <3>3, <4>1 DEF Share!TypeOK
      <4> QED
        BY <3>3, <4>1, <4>2
    <3> QED
      BY <1>3, <3>1, <3>2, <3>3 DEF Share!Register
  <2>2. UNCHANGED <<key, publishing, thread, made_slug, share_file, unwritten, links>>
    BY <1>3 DEF Share!Register, Share!asking, Share!links
  <2>3. Share!TypeOK'
    BY <2>1, <2>2 DEF Share!TypeOK
  <2>4. RoomsNumbered' /\ RoomReplaced' /\ LinkCurrent'
    BY <2>0, <2>1, <2>2 DEF RoomsNumbered, RoomReplaced, LinkCurrent
  <2>5. Share!RoomsAccounted'
    BY <2>0, <2>1 DEF Share!RoomsAccounted
  <2> QED
    BY <2>3, <2>4, <2>5
<1>4. CASE Share!Banner
  BY <1>4, LinkWritten DEF Share!Banner, Share!asking, Share!relay, Share!TypeOK,
                           RoomsNumbered, RoomReplaced, LinkCurrent,
     Share!RoomsAccounted
<1>5. CASE Share!Link
  BY <1>5, LinkWritten DEF Share!Link, Share!process, Share!asking, Share!relay,
                           Share!TypeOK, RoomsNumbered, RoomReplaced,
     LinkCurrent, Share!RoomsAccounted
<1>6. CASE Share!Dial
  BY <1>6 DEF Share!Dial, Share!asking, Share!links, Share!relay, Share!TypeOK,
              RoomsNumbered, RoomReplaced, LinkCurrent,
     Share!RoomsAccounted
<1>7. CASE Share!Lost
  BY <1>7 DEF Share!Lost, Share!asking, Share!links, Share!relay, Share!TypeOK,
              RoomsNumbered, RoomReplaced, LinkCurrent,
     Share!RoomsAccounted
<1>8. CASE Share!Refused
  BY <1>8 DEF Share!Refused, Share!process, Share!links, Share!relay, Share!TypeOK,
              RoomsNumbered, RoomReplaced, LinkCurrent,
     Share!RoomsAccounted
<1>9. CASE Share!Create
  <2>0. made_rooms \in Nat /\ live \subseteq 1 .. made_rooms /\ slug \notin live
          /\ slug <= made_rooms
    BY <1>9 DEF Share!Create, Share!TypeOK, RoomsNumbered, RoomReplaced
  <2>1. /\ made_rooms' \in 0 .. MaxRooms /\ made_rooms <= made_rooms'
             /\ live' \subseteq 1 .. made_rooms'
        /\ live' \subseteq 1 .. MaxRooms
        /\ \/ thread' = "made" /\ made_slug' \in 1 .. MaxRooms /\ slug # made_slug'
              /\ made_slug' \in 1 .. made_rooms'
              /\ live' = live \cup {made_slug'}
           \/ thread' = "failed" /\ made_slug' = made_slug /\ live' = live
    <3>1. CASE Share!Make /\ thread' = "made" /\ made_slug' = made_rooms'
      BY <2>0, <3>1, RoomIsNew DEF Share!TypeOK
    <3>2. CASE thread' = "failed" /\ UNCHANGED <<Share!relay, made_slug>>
      BY <2>0, <3>2 DEF Share!relay, Share!TypeOK
    <3> QED
      BY <1>9, <3>1, <3>2 DEF Share!Create
  <2>2. /\ UNCHANGED <<run, slug, key, publishing, share_file, unwritten, links, stray>>
        /\ thread = "sent"
    BY <1>9 DEF Share!Create, Share!process, Share!links
  <2>3. Share!TypeOK'
    BY <2>1, <2>2 DEF Share!TypeOK
  <2>4. RoomsNumbered'
    <3>1. slug' <= made_rooms'
      BY <2>0, <2>1, <2>2 DEF Share!TypeOK
    <3> QED
      BY <2>1, <2>2, <3>1 DEF RoomsNumbered
  <2>5. RoomReplaced' /\ LinkCurrent'
    BY <2>0, <2>1, <2>2 DEF RoomReplaced, LinkCurrent
  <2>6. Share!RoomsAccounted'
    BY <2>1, <2>2 DEF Share!RoomsAccounted
  <2> QED
    BY <2>3, <2>4, <2>5, <2>6
<1>10. CASE Share!Answered
  <2>1. Share!TypeOK'
    BY <1>10 DEF Share!Answered, Share!links, Share!relay, Share!TypeOK, RoomsNumbered
  <2>2. RoomsNumbered'
    BY <1>10 DEF Share!Answered, Share!links, Share!relay, Share!TypeOK, RoomsNumbered
  <2>3. RoomReplaced'
    BY <1>10 DEF Share!Answered, Share!links, Share!relay, Share!TypeOK, RoomsNumbered,
                 RoomReplaced
  <2>4. LinkCurrent'
    BY <1>10 DEF Share!Answered, Share!links, Share!relay, Share!TypeOK, RoomsNumbered,
                 LinkCurrent
  <2>5. Share!RoomsAccounted'
    BY <1>10 DEF Share!Answered, Share!links, Share!relay, Share!TypeOK, RoomsNumbered,
                 RoomReplaced, Share!RoomsAccounted
  <2> QED
    BY <2>1, <2>2, <2>3, <2>4, <2>5
<1>11. CASE Share!Rotate
  <2>1. slug \in Share!Slugs /\ key' \in 0 .. MaxKeys
    BY <1>11 DEF Share!Rotate, Share!TypeOK, RoomsNumbered
  <2> QED
    BY <1>11, <2>1, LinkWritten DEF Share!Rotate, Share!relay, Share!TypeOK, RoomsNumbered,
                                    RoomReplaced, LinkCurrent,
       Share!RoomsAccounted
<1>12. CASE Share!Retry
  BY <1>12 DEF Share!Retry, Share!process, Share!links, Share!relay, Share!TypeOK,
               RoomsNumbered, RoomReplaced, LinkCurrent,
     Share!RoomsAccounted
<1>13. CASE Share!Stop \/ Share!Drained
  BY <1>13 DEF Share!Stop, Share!Drained, Share!asking, Share!links, Share!relay,
               Share!TypeOK, RoomsNumbered, RoomReplaced, LinkCurrent,
     Share!RoomsAccounted
<1>14. CASE Share!EndRoom
  BY <1>14 DEF Share!EndRoom, Share!asking, Share!links, Share!TypeOK, RoomsNumbered,
               RoomReplaced, LinkCurrent,
     Share!RoomsAccounted
<1>15. CASE Share!Forget
  BY <1>15 DEF Share!Forget, Share!asking, Share!relay, Share!TypeOK, RoomsNumbered,
               RoomReplaced, LinkCurrent,
     Share!RoomsAccounted
<1>16. CASE Share!Die
  BY <1>16 DEF Share!Die, Share!asking, Share!links, Share!relay, Share!TypeOK,
               RoomsNumbered, RoomReplaced, LinkCurrent,
     Share!RoomsAccounted
<1>17. CASE Share!RoomEnds \/ Share!RelayRestarts
  <2>1. Share!TypeOK'
    BY <1>17 DEF Share!RoomEnds, Share!RelayRestarts, Share!process, Share!asking,
                 Share!links, Share!TypeOK, RoomsNumbered
  <2>2. RoomsNumbered'
    BY <1>17 DEF Share!RoomEnds, Share!RelayRestarts, Share!process, Share!asking,
                 Share!links, Share!TypeOK, RoomsNumbered
  <2>3. RoomReplaced'
    BY <1>17 DEF Share!RoomEnds, Share!RelayRestarts, Share!process, Share!asking,
                 Share!links, Share!TypeOK, RoomsNumbered, RoomReplaced
  <2>4. LinkCurrent'
    BY <1>17 DEF Share!RoomEnds, Share!RelayRestarts, Share!process, Share!asking,
                 Share!links, Share!TypeOK, RoomsNumbered, LinkCurrent
  <2>5. Share!RoomsAccounted'
    BY <1>17 DEF Share!RoomEnds, Share!RelayRestarts, Share!process, Share!asking,
                 Share!links, Share!TypeOK, RoomsNumbered, RoomReplaced,
                 Share!RoomsAccounted
  <2> QED
    BY <2>1, <2>2, <2>3, <2>4, <2>5
<1> QED
  BY <1>1, <1>2, <1>3, <1>4, <1>5, <1>6, <1>7, <1>8, <1>9, <1>10, <1>11, <1>12, <1>13,
     <1>14, <1>15, <1>16, <1>17 DEF Share!Next
=============================================================================
