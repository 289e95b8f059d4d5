------------------------ MODULE DatabaseUnits_proofs ------------------------
(***************************************************************************)
(* Theorems about the locks, the rows and the transactions of              *)
(* DatabaseUnits, for any units, names, keys, entities, machine and        *)
(* scenes: either port, any session, any timeouts and retries.             *)
(***************************************************************************)
EXTENDS DatabaseUnits, FiniteSetTheorems, WellFoundedInduction, TLAPS

-----------------------------------------------------------------------------
(* Requests. *)

SceneOk ==
  /\ scene \in Scenes
  /\ scene.key \in [Names -> Keys]
  /\ scene.declared \in [Units -> Seq(Request)]
  /\ scene.impatient \in BOOLEAN
  /\ Keys \subseteq Nat

LEMMA SceneFacts == ASSUME scene \in Scenes PROVE SceneOk
  BY ScenesAssumption, NamesAssumption DEF SceneOk

\* What a unit declares are requests, for keys of the port.
LEMMA RequestFacts ==
  ASSUME SceneOk, NEW u \in Units
  PROVE  /\ \A q \in Of(u) : q \in Request /\ Key(q) \in KeysOf(u)
         /\ KeysOf(u) \subseteq Keys
         /\ \A k \in Keys : ModeOf(u, k) \in Mode /\ Timed(u, k) \in BOOLEAN
<1>1. \A q \in Of(u) : q \in Request
  BY DEF Of, SceneOk
<1>2. \A q \in Of(u) : Key(q) \in Keys
  BY <1>1 DEF Key, SceneOk, Request
<1> QED BY <1>1, <1>2 DEF KeysOf, ModeOf, Mode, Timed

\* Only one key is next.
LEMMA NextIsUnique ==
  ASSUME SceneOk, NEW u \in Units, NEW k, NEW l, IsNext(u, k), IsNext(u, l)
  PROVE  k = l /\ k \in Keys
<1>1. k \in Keys /\ l \in Keys
  BY RequestFacts DEF IsNext, Missing
<1>2. k \in Nat /\ l \in Nat /\ k <= l /\ l <= k
  BY <1>1 DEF SceneOk, IsNext
<1> QED BY <1>1, <1>2

-----------------------------------------------------------------------------
(* Queues. *)

NoDup(q) == \A i, j \in DOMAIN q : q[i] = q[j] => i = j
Members(q) == {q[i] : i \in DOMAIN q}
Before(q, v, w) == \E i, j \in DOMAIN q : i < j /\ q[i] = v /\ q[j] = w

\* Who leaves a queue leaves the others in their order.
LEMMA WithoutFacts ==
  ASSUME NEW q \in Seq(Units), NoDup(q), NEW u \in Units
  PROVE  /\ Without(q, u) \in Seq(Units)
         /\ NoDup(Without(q, u))
         /\ Members(Without(q, u)) = Members(q) \ {u}
         /\ \A v \in Units \ {u}, w \in Units \ {u} : Before(Without(q, u), v, w) <=> Before(q, v, w)
<1>0. Len(q) \in Nat /\ DOMAIN q = 1 .. Len(q) /\ \A i \in 1 .. Len(q) : q[i] \in Units
  OBVIOUS
<1>1. CASE ~\E i \in DOMAIN q : q[i] = u
  BY <1>1 DEF Without, Members
<1>2. CASE \E i \in DOMAIN q : q[i] = u
  <2> DEFINE gone == CHOOSE i \in DOMAIN q : q[i] = u
             r == Without(q, u)
  <2>1. gone \in 1 .. Len(q) /\ q[gone] = u
    BY <1>2, <1>0
  <2>2. r = [j \in 1 .. Len(q) - 1 |-> IF j < gone THEN q[j] ELSE q[j + 1]]
    BY <1>2 DEF Without
  <2> HIDE DEF gone, r
  <2>3. r \in Seq(Units) /\ Len(r) = Len(q) - 1 /\ DOMAIN r = 1 .. Len(q) - 1
    BY <2>1, <2>2, <1>0
  <2>4. \A j \in 1 .. Len(q) - 1 : r[j] = IF j < gone THEN q[j] ELSE q[j + 1]
    BY <2>2
  <2> DEFINE Old(j) == IF j < gone THEN j ELSE j + 1
             New(i) == IF i < gone THEN i ELSE i - 1
  <2>5. \A j \in DOMAIN r : Old(j) \in DOMAIN q /\ Old(j) # gone /\ r[j] = q[Old(j)] /\ New(Old(j)) = j
    BY <2>1, <2>3, <2>4, <1>0
  <2>6. \A i \in DOMAIN q : i # gone => New(i) \in DOMAIN r /\ r[New(i)] = q[i] /\ Old(New(i)) = i
    BY <2>1, <2>3, <2>4, <1>0
  <2>7. \A i, j \in DOMAIN q : i # gone /\ j # gone /\ i < j => New(i) < New(j)
    BY <2>1, <1>0
  <2>8. \A i, j \in DOMAIN r : i < j => Old(i) < Old(j)
    BY <2>1, <2>3, <1>0
  <2>9. \A i \in DOMAIN q : q[i] = u => i = gone
    BY <2>1, <1>0 DEF NoDup
  <2> HIDE DEF Old, New
  <2>10. NoDup(r)
    BY <2>5 DEF NoDup
  <2>11. Members(r) = Members(q) \ {u}
    <3>1. ASSUME NEW v \in Members(r) PROVE v \in Members(q) \ {u}
      BY <3>1, <2>5, <2>9 DEF Members
    <3>2. ASSUME NEW v \in Members(q), v # u PROVE v \in Members(r)
      BY <3>2, <2>1, <2>6 DEF Members
    <3> QED BY <3>1, <3>2
  <2>12. ASSUME NEW v \in Units \ {u}, NEW w \in Units \ {u} PROVE Before(r, v, w) <=> Before(q, v, w)
    <3>1. ASSUME Before(r, v, w) PROVE Before(q, v, w)
      BY <3>1, <2>5, <2>8 DEF Before
    <3>2. ASSUME Before(q, v, w) PROVE Before(r, v, w)
      <4>1. PICK i \in DOMAIN q, j \in DOMAIN q : i < j /\ q[i] = v /\ q[j] = w
        BY <3>2 DEF Before
      <4>2. i # gone /\ j # gone
        BY <4>1, <2>1
      <4> QED BY <4>1, <4>2, <2>6, <2>7 DEF Before
    <3> QED BY <3>1, <3>2
  <2> QED BY <2>3, <2>10, <2>11, <2>12 DEF r
<1> QED BY <1>1, <1>2

\* pump stops at the first waiter that is not compatible, and there is such a place.
LEMMA PumpedFacts ==
  ASSUME NEW held, NEW q \in Seq(Units), NEW k
  PROVE  LET n == Pumped(held, q, k)
         IN  /\ n \in 0 .. Len(q)
             /\ \A i \in 1 .. n : Compatible(held \cup {q[j] : j \in 1 .. i - 1}, q[i], k)
             /\ n < Len(q) => ~Compatible(held \cup {q[j] : j \in 1 .. n}, q[n + 1], k)
<1> DEFINE Front(n) == {q[j] : j \in 1 .. n}
           Fits(i) == Compatible(held \cup Front(i - 1), q[i], k)
           Stops == {n \in 0 .. Len(q) : n = Len(q) \/ ~Fits(n + 1)}
           P(n) == /\ \A i \in 1 .. n : Compatible(held \cup {q[j] : j \in 1 .. i - 1}, q[i], k)
                   /\ n < Len(q) => ~Compatible(held \cup {q[j] : j \in 1 .. n}, q[n + 1], k)
<1>0. Len(q) \in Nat
  OBVIOUS
<1>1. Stops \subseteq Nat /\ Stops # {}
  BY <1>0
<1>2. PICK m \in Stops : \A n \in Stops : ~(<<n, m>> \in OpToRel(<, Nat))
  <2> HIDE DEF Stops
  <2> QED BY <1>1, NatLessThanWellFounded, WFMin, Zenon
<1>3. \A n \in Stops : ~(n < m)
  BY <1>1, <1>2 DEF OpToRel
<1>4. P(m)
  <2>1. ASSUME NEW i \in 1 .. m PROVE Fits(i)
    <3>1. i - 1 \in 0 .. Len(q) /\ i - 1 < m /\ i - 1 # Len(q) /\ (i - 1) + 1 = i
      BY <1>0
    <3>2. i - 1 \notin Stops
      BY <3>1, <1>3
    <3> HIDE DEF Fits
    <3> QED BY <3>1, <3>2
  <2>2. ASSUME m < Len(q) PROVE ~Fits(m + 1)
    <3> HIDE DEF Fits
    <3> QED BY <2>2, <1>0
  <2>3. m + 1 - 1 = m
    BY <1>0
  <2>4. Fits(m + 1) = Compatible(held \cup Front(m), q[m + 1], k)
    <3> HIDE DEF Front
    <3> QED BY <2>3
  <2> HIDE DEF Fits
  <2>5. m < Len(q) => ~Compatible(held \cup Front(m), q[m + 1], k)
    BY <2>2, <2>4
  <2> USE DEF Fits
  <2> QED BY ONLY <2>1, <2>5, Zenon
<1>5. m \in 0 .. Len(q)
  OBVIOUS
<1>6. Pumped(held, q, k) = CHOOSE n \in 0 .. Len(q) : P(n)
  BY DEF Pumped
<1> HIDE DEF P
<1>7. Pumped(held, q, k) \in 0 .. Len(q) /\ P(Pumped(held, q, k))
  BY <1>4, <1>5, <1>6
<1> QED BY <1>7 DEF P

-----------------------------------------------------------------------------
(* One key: who holds it, who waits for it, who asked for it, whether it has an entry. *)

Ordered(q, ar) == \A i, j \in DOMAIN q : i < j => Before(ar, q[i], q[j])
KeySafe(k, hs, q, ar, present) ==
  /\ NoDup(ar)
  /\ hs \cup Members(q) \subseteq Members(ar)
  /\ \A v, w \in hs : v # w => ModeOf(v, k) = "shared"
  /\ Ordered(q, ar)
  /\ \A v \in hs, w \in Members(q) : Before(ar, v, w)
  /\ q # <<>> => ~Compatible(hs, q[1], k)
  /\ ~present => hs = {} /\ q = <<>>

\* Nobody is twice in a queue.
LEMMA QueueNoDup ==
  ASSUME NEW q \in Seq(Units), NEW ar \in Seq(Units), NoDup(ar), Ordered(q, ar)
  PROVE  NoDup(q)
<1>1. DOMAIN q \subseteq Nat
  OBVIOUS
<1>2. DOMAIN ar \subseteq Nat
  OBVIOUS
<1>3. \A v : ~Before(ar, v, v)
  BY <1>2 DEF Before, NoDup
<1>4. \A i, j \in DOMAIN q : i < j => q[i] # q[j]
  BY <1>3 DEF Ordered
<1> QED BY <1>1, <1>4 DEF NoDup

\* A unit that comes last in the arrivals.
LEMMA ArrivesLast ==
  ASSUME NEW ar \in Seq(Units), NEW u \in Units, u \notin Members(ar), NoDup(ar)
  PROVE  /\ Append(ar, u) \in Seq(Units) /\ NoDup(Append(ar, u))
         /\ Members(Append(ar, u)) = Members(ar) \cup {u}
         /\ \A v, w : Before(ar, v, w) => Before(Append(ar, u), v, w)
         /\ \A v \in Members(ar) : Before(Append(ar, u), v, u)
<1> DEFINE r == Append(ar, u)
<1>1. /\ r \in Seq(Units) /\ Len(ar) \in Nat /\ DOMAIN ar = 1 .. Len(ar)
      /\ DOMAIN r = 1 .. Len(ar) + 1 /\ r[Len(ar) + 1] = u
      /\ \A i \in 1 .. Len(ar) : r[i] = ar[i]
  OBVIOUS
<1> HIDE DEF r
<1>2. NoDup(r)
  BY <1>1 DEF NoDup, Members
<1>3. Members(r) = Members(ar) \cup {u}
  <2>1. \A v \in Members(r) : v \in Members(ar) \cup {u}
    BY <1>1 DEF Members
  <2>2. \A v \in Members(ar) : v \in Members(r)
    BY <1>1 DEF Members
  <2>3. u \in Members(r)
    BY <1>1 DEF Members
  <2> QED BY <2>1, <2>2, <2>3
<1>4. \A v, w : Before(ar, v, w) => Before(r, v, w)
  BY <1>1 DEF Before
<1>5. \A v \in Members(ar) : Before(r, v, u)
  BY <1>1 DEF Before, Members
<1> QED BY <1>1, <1>2, <1>3, <1>4, <1>5 DEF r

LEMMA AppendMembers ==
  ASSUME NEW q \in Seq(Units), NEW u \in Units PROVE Members(Append(q, u)) = Members(q) \cup {u}
<1>1. /\ Len(q) \in Nat /\ DOMAIN q = 1 .. Len(q) /\ DOMAIN Append(q, u) = 1 .. Len(q) + 1
      /\ Append(q, u)[Len(q) + 1] = u /\ \A i \in 1 .. Len(q) : Append(q, u)[i] = q[i]
  OBVIOUS
<1>2. \A v \in Members(Append(q, u)) : v \in Members(q) \cup {u}
  BY <1>1 DEF Members
<1>3. \A v \in Members(q) : v \in Members(Append(q, u))
  BY <1>1 DEF Members
<1>4. u \in Members(Append(q, u))
  BY <1>1 DEF Members
<1> QED BY <1>2, <1>3, <1>4

\* A request that is granted at once.
LEMMA KeyGranted ==
  ASSUME NEW k, NEW hs \in SUBSET Units, NEW q \in Seq(Units), NEW ar \in Seq(Units),
         NEW present, NEW u \in Units,
         KeySafe(k, hs, q, ar, present), u \notin Members(ar),
         ~present \/ (q = <<>> /\ Compatible(hs, u, k)), ModeOf(u, k) \in Mode
  PROVE  KeySafe(k, hs \cup {u}, q, Append(ar, u), TRUE)
<1>1. q = <<>> /\ Members(q) = {} /\ DOMAIN q = {}
  BY DEF KeySafe, Members
<1>2. \A v \in hs : v # u => ModeOf(v, k) = "shared" /\ ModeOf(u, k) = "shared"
  BY DEF KeySafe, Compatible, Mode
<1> QED BY <1>1, <1>2, ArrivesLast DEF KeySafe, Ordered

\* A request that has to wait.
LEMMA KeyQueued ==
  ASSUME NEW k, NEW hs \in SUBSET Units, NEW q \in Seq(Units), NEW ar \in Seq(Units),
         NEW present, NEW u \in Units,
         KeySafe(k, hs, q, ar, present), u \notin Members(ar),
         ~(~present \/ (q = <<>> /\ Compatible(hs, u, k)))
  PROVE  KeySafe(k, hs, Append(q, u), Append(ar, u), TRUE)
<1> DEFINE r == Append(q, u)
           ar2 == Append(ar, u)
<1>1. /\ r \in Seq(Units) /\ Len(q) \in Nat /\ DOMAIN q = 1 .. Len(q)
      /\ DOMAIN r = 1 .. Len(q) + 1 /\ r[Len(q) + 1] = u
      /\ (\A i \in 1 .. Len(q) : r[i] = q[i]) /\ (q = <<>> <=> Len(q) = 0)
  OBVIOUS
<1>2. /\ NoDup(ar2) /\ Members(ar2) = Members(ar) \cup {u}
      /\ \A v, w : Before(ar, v, w) => Before(ar2, v, w)
      /\ \A v \in Members(ar) : Before(ar2, v, u)
  BY ArrivesLast DEF KeySafe
<1> HIDE DEF r, ar2
<1>3. \A v \in Members(r) : v \in Members(q) \/ v = u
  BY <1>1 DEF Members
<1>4. Ordered(r, ar2)
  <2> SUFFICES ASSUME NEW i \in DOMAIN r, NEW j \in DOMAIN r, i < j PROVE Before(ar2, r[i], r[j])
    BY DEF Ordered
  <2>1. i \in DOMAIN q /\ r[i] = q[i] /\ q[i] \in Members(q)
    BY <1>1 DEF Members
  <2>2. CASE j \in DOMAIN q
    BY <2>1, <2>2, <1>1, <1>2 DEF KeySafe, Ordered
  <2>3. CASE j \notin DOMAIN q
    <3>1. r[j] = u
      BY <2>3, <1>1
    <3> QED BY <2>1, <3>1, <1>2 DEF KeySafe
  <2> QED BY <2>2, <2>3
<1>5. \A v \in hs, w \in Members(r) : Before(ar2, v, w)
  BY <1>2, <1>3 DEF KeySafe
<1>6. ~Compatible(hs, r[1], k)
  BY <1>1 DEF KeySafe
<1> QED BY <1>2, <1>3, <1>4, <1>5, <1>6 DEF KeySafe, r, ar2

\* A unit that neither holds nor waits is forgotten.
LEMMA KeyForgets ==
  ASSUME NEW k, NEW hs \in SUBSET Units, NEW q \in Seq(Units), NEW ar \in Seq(Units),
         NEW present, NEW u \in Units,
         KeySafe(k, hs, q, ar, present), u \notin hs \cup Members(q)
  PROVE  KeySafe(k, hs, q, Without(ar, u), present)
<1>1. /\ NoDup(Without(ar, u)) /\ Members(Without(ar, u)) = Members(ar) \ {u}
      /\ \A v \in Units \ {u}, w \in Units \ {u} : Before(Without(ar, u), v, w) <=> Before(ar, v, w)
  BY WithoutFacts DEF KeySafe
<1>2. \A i \in DOMAIN q : q[i] \in Units \ {u} /\ q[i] \in Members(q)
  BY DEF Members
<1>3. Members(q) \subseteq Units \ {u} /\ hs \subseteq Units \ {u}
  BY <1>2 DEF Members
<1> QED BY <1>1, <1>2, <1>3 DEF KeySafe, Ordered

\* A queue and what is left of it behind its first n members.
LEMMA TailFacts ==
  ASSUME NEW q \in Seq(Units), NEW n \in 0 .. Len(q)
  PROVE  LET r == SubSeq(q, n + 1, Len(q))
             first == {q[i] : i \in 1 .. n}
         IN  /\ r \in Seq(Units) /\ (r = <<>> <=> Len(q) = n)
             /\ r # <<>> => n < Len(q) /\ r[1] = q[n + 1]
             /\ first \cup Members(r) = Members(q)
             /\ \A v \in first, w \in Members(r) : Before(q, v, w)
             /\ \A i, j \in DOMAIN r : i < j => Before(q, r[i], r[j])
<1>0. Len(q) \in Nat /\ n \in Nat /\ (n < Len(q) \/ Len(q) = n)
  OBVIOUS
<1>1. Len(q) \in Nat /\ DOMAIN q = 1 .. Len(q) /\ \A i \in 1 .. Len(q) : q[i] \in Units
  OBVIOUS
<1> DEFINE r == SubSeq(q, n + 1, Len(q))
           first == {q[i] : i \in 1 .. n}
<1>2. r = [i \in 1 .. Len(q) - n |-> q[n + i]]
  BY <1>1
<1> HIDE DEF r
<1>3. \A i \in 1 .. Len(q) - n : n + i \in 1 .. Len(q) /\ r[i] = q[n + i]
  BY <1>1, <1>2
<1>4. r \in Seq(Units) /\ Len(r) = Len(q) - n /\ DOMAIN r = 1 .. Len(q) - n
  BY <1>1, <1>2, <1>3
<1>5. r = <<>> <=> Len(q) = n
  <2>1. r = <<>> <=> Len(r) = 0
    BY <1>4
  <2>2. Len(q) - n = 0 <=> Len(q) = n
    BY <1>1
  <2> QED BY <2>1, <2>2, <1>4
<1>6. r # <<>> => n < Len(q) /\ r[1] = q[n + 1]
  <2> SUFFICES ASSUME r # <<>> PROVE n < Len(q) /\ r[1] = q[n + 1]
    OBVIOUS
  <2>1. n < Len(q)
    BY <1>0, <1>5
  <2>2. 1 \in 1 .. Len(q) - n
    BY <2>1, <1>1
  <2>3. n + 1 \in 1 .. Len(q) /\ r[1] = q[n + 1]
    BY <2>2, <1>3
  <2> QED BY <2>1, <2>3
<1>7. first \cup Members(r) = Members(q)
  <2>1. \A v \in first : v \in Members(q)
    BY <1>1 DEF Members
  <2>2. \A v \in Members(r) : v \in Members(q)
    BY <1>1, <1>3, <1>4 DEF Members
  <2>3. ASSUME NEW i \in DOMAIN q PROVE q[i] \in first \cup Members(r)
    <3>1. CASE i <= n
      BY <3>1, <1>1
    <3>2. CASE i > n
      <4>1. i - n \in 1 .. Len(q) - n /\ n + (i - n) = i
        BY <3>2, <1>1
      <4>2. r[i - n] = q[i]
        BY <4>1, <1>3
      <4> QED BY <4>1, <4>2, <1>4 DEF Members
    <3> QED BY <3>1, <3>2, <1>1
  <2> QED BY <2>1, <2>2, <2>3 DEF Members
<1>8. ASSUME NEW v \in first, NEW w \in Members(r) PROVE Before(q, v, w)
  <2>1. PICK i \in 1 .. n : v = q[i]
    OBVIOUS
  <2>2. PICK j \in DOMAIN r : w = r[j]
    BY DEF Members
  <2>3. i \in DOMAIN q /\ n + j \in DOMAIN q /\ i < n + j /\ w = q[n + j]
    BY <2>1, <2>2, <1>1, <1>3, <1>4
  <2> QED BY <2>1, <2>3 DEF Before
<1>9. ASSUME NEW i \in DOMAIN r, NEW j \in DOMAIN r, i < j PROVE Before(q, r[i], r[j])
  <2>1. /\ n + i \in DOMAIN q /\ n + j \in DOMAIN q /\ n + i < n + j
        /\ r[i] = q[n + i] /\ r[j] = q[n + j]
    BY <1>1, <1>3, <1>4, <1>9
  <2> QED BY <2>1 DEF Before
<1> QED BY <1>4, <1>5, <1>6, <1>7, <1>8, <1>9 DEF r

\* What is before in the queue was before in the arrivals.
LEMMA OrderedFacts ==
  ASSUME NEW q, NEW ar \in Seq(Units), NoDup(ar), Ordered(q, ar)
  PROVE  /\ \A v, w : Before(q, v, w) => Before(ar, v, w)
         /\ \A v : ~Before(ar, v, v)
<1>1. DOMAIN ar \subseteq Nat
  OBVIOUS
<1> QED BY <1>1 DEF Before, NoDup, Ordered

\* The first n waiters can be granted, and no more.
Grantable(held, q, n, k) ==
  /\ \A i \in 1 .. n : Compatible(held \cup {q[j] : j \in 1 .. i - 1}, q[i], k)
  /\ n < Len(q) => ~Compatible(held \cup {q[j] : j \in 1 .. n}, q[n + 1], k)
\* One key after the first n waiters were granted.
Granted(held, q, ar, present, n, k) ==
  LET woken == {q[i] : i \in 1 .. n}
      tail == SubSeq(q, n + 1, Len(q))
  IN  /\ tail \in Seq(Units)
      /\ woken \cup Members(tail) = Members(q)
      /\ woken \cap Members(tail) = {}
      /\ KeySafe(k, held \cup woken, tail, ar, present /\ ~Deserted(held \cup woken, q))

\* Those a holder was in the way of are granted in their order, and nobody else.
LEMMA KeyPumped ==
  ASSUME NEW k, NEW left \in SUBSET Units, NEW rest \in Seq(Units), NEW ar \in Seq(Units),
         NEW n \in 0 .. Len(rest), NEW present,
         \A v \in Units : ModeOf(v, k) \in Mode,
         NoDup(ar), Ordered(rest, ar), left \cup Members(rest) \subseteq Members(ar),
         \A v \in left, w \in Members(rest) : Before(ar, v, w),
         \A v, w \in left : v # w => ModeOf(v, k) = "shared",
         Grantable(left, rest, n, k),
         present \/ (left = {} /\ rest = <<>>)
  PROVE  Granted(left, rest, ar, present, n, k)
<1> DEFINE woken == {rest[i] : i \in 1 .. n}
           tail == SubSeq(rest, n + 1, Len(rest))
<1>1. \A i \in 1 .. n : rest[i] \in Units
  BY DEF Members
<1>2. /\ tail \in Seq(Units) /\ (tail = <<>> <=> Len(rest) = n)
      /\ tail # <<>> => n < Len(rest) /\ tail[1] = rest[n + 1]
      /\ woken \cup Members(tail) = Members(rest)
      /\ \A v \in woken, w \in Members(tail) : Before(rest, v, w)
      /\ \A i, j \in DOMAIN tail : i < j => Before(rest, tail[i], tail[j])
  BY TailFacts, Zenon
<1> HIDE DEF tail
<1>3. woken \cup Members(tail) = Members(rest)
  BY <1>2
\* Whoever is woken was ahead of whoever still waits.
<1>4. \A v \in woken, w \in Members(tail) : Before(ar, v, w)
  BY <1>2, OrderedFacts
<1>5. woken \cap Members(tail) = {}
  BY <1>4, OrderedFacts
<1>6. Ordered(tail, ar)
  BY <1>2, OrderedFacts DEF Ordered
<1>7. \A v \in left \cup woken, w \in Members(tail) : Before(ar, v, w)
  BY <1>3, <1>4
\* Whoever is woken fits to all that hold the key by then.
<1>8. ASSUME NEW i \in 1 .. n, NEW v \in left \cup {rest[j] : j \in 1 .. i - 1}
      PROVE  ModeOf(v, k) = "shared" /\ ModeOf(rest[i], k) = "shared"
  <2>1. rest[i] \in Units
    BY <1>1
  <2>2. ModeOf(rest[i], k) \in Mode
    BY <2>1
  <2>3. Compatible(left \cup {rest[j] : j \in 1 .. i - 1}, rest[i], k)
    BY DEF Grantable
  <2> QED BY <2>2, <2>3, <1>8 DEF Compatible, Mode
<1>9. \A v, w \in left \cup woken : v # w => ModeOf(v, k) = "shared"
  <2> SUFFICES ASSUME NEW v \in left \cup woken, NEW w \in left \cup woken, v # w
               PROVE  ModeOf(v, k) = "shared"
    OBVIOUS
  <2>1. CASE v \in left /\ w \in left
    BY <2>1
  <2>2. CASE v \in left /\ w \in woken
    BY <2>2, <1>8
  <2>3. CASE v \in woken /\ w \in left
    BY <2>3, <1>8
  <2>4. CASE v \in woken /\ w \in woken
    <3>1. PICK i \in 1 .. n, j \in 1 .. n : v = rest[i] /\ w = rest[j]
      BY <2>4
    <3>2. CASE i < j
      <4>1. i \in 1 .. j - 1
        BY <3>2
      <4> QED BY <3>1, <4>1, <1>8
    <3>3. CASE j < i
      <4>1. j \in 1 .. i - 1
        BY <3>3
      <4> QED BY <3>1, <4>1, <1>8
    <3> QED BY <3>1, <3>2, <3>3
  <2> QED BY <2>1, <2>2, <2>3, <2>4
<1>10. tail # <<>> => ~Compatible(left \cup woken, tail[1], k)
  <2> SUFFICES ASSUME tail # <<>> PROVE ~Compatible(left \cup woken, tail[1], k)
    OBVIOUS
  <2>1. n < Len(rest) /\ tail[1] = rest[n + 1]
    BY <1>2
  <2> QED BY <2>1 DEF Grantable
<1>11. left \cup woken \cup Members(tail) \subseteq Members(ar)
  BY <1>3
<1>12. ~(present /\ ~Deserted(left \cup woken, rest)) => left \cup woken = {} /\ tail = <<>>
  <2>1. rest = <<>> => n = 0 /\ Len(rest) = 0
    BY <1>1
  <2>2. CASE Deserted(left \cup woken, rest)
    BY <2>1, <2>2, <1>2 DEF Deserted
  <2>3. CASE ~present
    BY <2>1, <2>3, <1>2
  <2> QED BY <2>2, <2>3
<1>13. KeySafe(k, left \cup woken, tail, ar, present /\ ~Deserted(left \cup woken, rest))
  BY <1>6, <1>7, <1>9, <1>10, <1>11, <1>12 DEF KeySafe
<1> QED BY <1>2, <1>3, <1>5, <1>13 DEF tail, Granted

\* A unit that leaves, as a holder or as a waiter.
LEMMA KeyVacated ==
  ASSUME NEW k, NEW hs \in SUBSET Units, NEW q \in Seq(Units), NEW ar \in Seq(Units),
         NEW present, NEW u \in Units, \A v \in Units : ModeOf(v, k) \in Mode,
         KeySafe(k, hs, q, ar, present)
  PROVE  /\ Members(Without(q, u)) = Members(q) \ {u}
         /\ Granted(hs \ {u}, Without(q, u), ar, present, Pumped(hs \ {u}, Without(q, u), k), k)
<1> DEFINE left == hs \ {u}
           rest == Without(q, u)
           n == Pumped(left, rest, k)
<1>0. ar \in Seq(Units) /\ \A v \in Units : ModeOf(v, k) \in Mode
  OBVIOUS
<1>1. NoDup(q)
  BY QueueNoDup DEF KeySafe
<1>2. /\ rest \in Seq(Units) /\ NoDup(rest) /\ Members(rest) = Members(q) \ {u}
      /\ \A v \in Units \ {u}, w \in Units \ {u} : Before(rest, v, w) <=> Before(q, v, w)
  BY <1>1, WithoutFacts
<1>3. n \in 0 .. Len(rest) /\ Grantable(left, rest, n, k)
  BY <1>2, PumpedFacts DEF Grantable
<1> HIDE DEF n, rest
<1>4. Ordered(rest, ar)
  <2> SUFFICES ASSUME NEW i \in DOMAIN rest, NEW j \in DOMAIN rest, i < j PROVE Before(ar, rest[i], rest[j])
    BY DEF Ordered
  <2>1. Before(rest, rest[i], rest[j])
    BY DEF Before
  <2>2. rest[i] \in Units \ {u} /\ rest[j] \in Units \ {u}
    <3>1. rest[i] \in Members(rest) /\ rest[j] \in Members(rest)
      BY DEF Members
    <3>2. rest[i] \in Units /\ rest[j] \in Units
      BY <1>2
    <3> QED BY <3>1, <3>2, <1>2
  <2>3. Before(q, rest[i], rest[j])
    BY <2>1, <2>2, <1>2
  <2> QED BY <2>3 DEF KeySafe, Ordered, Before
<1>5. /\ NoDup(ar) /\ left \cup Members(rest) \subseteq Members(ar)
      /\ \A v \in left, w \in Members(rest) : Before(ar, v, w)
      /\ \A v, w \in left : v # w => ModeOf(v, k) = "shared"
  BY <1>2 DEF KeySafe
<1>6. present \/ (left = {} /\ rest = <<>>)
  <2> SUFFICES ASSUME ~present PROVE left = {} /\ rest = <<>>
    OBVIOUS
  <2>1. hs = {} /\ q = <<>>
    BY DEF KeySafe
  <2>2. rest = q
    BY <2>1 DEF rest, Without
  <2> QED BY <2>1, <2>2
<1>7. left \in SUBSET Units
  OBVIOUS
<1> HIDE DEF left
<1>8. Granted(left, rest, ar, present, n, k)
  BY ONLY <1>0, <1>2, <1>3, <1>4, <1>5, <1>6, <1>7, KeyPumped
<1> QED BY <1>2, <1>8 DEF left, rest, n

-----------------------------------------------------------------------------
(* The invariant. *)

LockTypes ==
  /\ scene \in Scenes
  /\ holders \in [Keys -> SUBSET Units]
  /\ queue \in [Keys -> Seq(Units)]
  /\ entries \subseteq Keys
  /\ at \in [Units -> Places]
  /\ taken \in [Units -> SUBSET Keys]
  /\ arrivals \in [Keys -> Seq(Units)]
  /\ impatient \in [Units -> BOOLEAN]

\* A unit at its steps has all of its locks, and the timeout of its session.
UnitInv(u) ==
  /\ at[u] \in Working => KeysOf(u) \subseteq taken[u]
  /\ at[u] \in Working \cup {"idle"} => impatient[u] = scene.impatient

\* What a unit knows of a key is what the port knows of the unit; only a failing unit is remembered
\* among the arrivals without holding the key or asking for it.
PairInv(u, k) ==
  /\ u \in holders[k] <=> k \in taken[u] \/ (at[u] = "granted" /\ IsNext(u, k))
  /\ u \in Members(queue[k]) => at[u] = "waiting" /\ IsNext(u, k)
  /\ u \in Members(arrivals[k]) =>
       k \in taken[u] \/ at[u] = "failing" \/ (at[u] \in {"waiting", "granted"} /\ IsNext(u, k))
  /\ at[u] = "waiting" /\ IsNext(u, k) /\ SetsTimeout => impatient[u] = WantedTimeout(u, k)

KeyInv(k) == KeySafe(k, holders[k], queue[k], arrivals[k], k \in entries)

LocksInv ==
  /\ LockTypes
  /\ \A u \in Units : UnitInv(u)
  /\ \A u \in Units, k \in Keys : PairInv(u, k)
  /\ \A k \in Keys : KeyInv(k)

\* What is declared stays; what a unit misses changes with what it took.
LEMMA SceneFrame ==
  ASSUME scene' = scene
  PROVE  /\ \A u : KeysOf(u)' = KeysOf(u)
         /\ \A u, k : ModeOf(u, k)' = ModeOf(u, k) /\ WantedTimeout(u, k)' = WantedTimeout(u, k)
         /\ SetsTimeout' = SetsTimeout
         /\ \A u, k : taken'[u] = taken[u] => IsNext(u, k)' = IsNext(u, k)
<1>1. \A u : Of(u)' = Of(u)
  BY DEF Of
<1>2. \A q : Key(q)' = Key(q)
  BY DEF Key
<1>3. \A u : KeysOf(u)' = KeysOf(u)
  BY <1>1, <1>2 DEF KeysOf
<1>4. \A u, k : ModeOf(u, k)' = ModeOf(u, k) /\ Timed(u, k)' = Timed(u, k)
  BY <1>1, <1>2 DEF ModeOf, Timed
<1>5. \A u, k : WantedTimeout(u, k)' = WantedTimeout(u, k)
  BY <1>4 DEF WantedTimeout
<1>6. ASSUME NEW u, NEW k, taken'[u] = taken[u] PROVE IsNext(u, k)' = IsNext(u, k)
  BY <1>3, <1>6 DEF IsNext, Missing
<1> QED BY <1>3, <1>4, <1>5, <1>6 DEF SetsTimeout

LEMMA KeyFrame ==
  ASSUME scene' = scene, NEW k, KeySafe(k, holders'[k], queue'[k], arrivals'[k], k \in entries')
  PROVE  KeyInv(k)'
<1>1. \A held, u : Compatible(held, u, k)' = Compatible(held, u, k)
  BY SceneFrame DEF Compatible
<1> QED BY <1>1, SceneFrame DEF KeyInv, KeySafe

LEMMA InitLocks == Init => LocksInv
<1> SUFFICES ASSUME Init PROVE LocksInv
  OBVIOUS
<1> USE DEF Init, LockInit
<1>1. SceneOk
  BY SceneFacts
<1>2. LockTypes
  BY <1>1 DEF LockTypes, SceneOk, Places
<1>3. ASSUME NEW u \in Units PROVE UnitInv(u)
  BY <1>3 DEF UnitInv, Working
<1>4. ASSUME NEW u \in Units, NEW k \in Keys PROVE PairInv(u, k)
  BY <1>4 DEF PairInv, Members
<1>5. ASSUME NEW k \in Keys PROVE KeyInv(k)
  BY <1>5 DEF KeyInv, KeySafe, NoDup, Members, Ordered
<1> QED BY <1>2, <1>3, <1>4, <1>5 DEF LocksInv

-----------------------------------------------------------------------------
(* Steps that touch no lock. *)

\* A unit goes on, from a place or to one that says nothing of the locks.
LEMMA StepStays ==
  ASSUME LocksInv, UNCHANGED <<scene, lockVars>>, NEW u \in Units, NEW p \in Places,
         at' = [at EXCEPT ![u] = p],
         \/ at[u] \in Working /\ p \in Working \cup {"failing"}
         \/ at[u] = "idle" /\ p \in {"locking", "failing"}
         \/ at[u] = "idle" /\ p = "working" /\ KeysOf(u) = {}
  PROVE  LocksInv'
<1> USE DEF lockVars
<1>1. LockTypes'
  BY DEF LocksInv, LockTypes
<1>2. ASSUME NEW v \in Units PROVE UnitInv(v)'
  <2>1. UnitInv(v) /\ KeysOf(v)' = KeysOf(v) /\ at'[v] = IF v = u THEN p ELSE at[v]
    BY SceneFrame DEF LocksInv, LockTypes
  <2> QED BY <2>1 DEF UnitInv, Working
<1>3. ASSUME NEW v \in Units, NEW k \in Keys PROVE PairInv(v, k)'
  <2>1. PairInv(v, k) /\ at'[v] = IF v = u THEN p ELSE at[v]
    BY DEF LocksInv, LockTypes
  <2>2. IsNext(v, k)' = IsNext(v, k) /\ WantedTimeout(v, k)' = WantedTimeout(v, k) /\ SetsTimeout' = SetsTimeout
    BY SceneFrame
  <2>3. p \notin {"waiting", "granted"} /\ at[u] \notin {"waiting", "granted", "failing"}
    BY DEF Working
  <2> QED BY <2>1, <2>2, <2>3 DEF PairInv
<1>4. ASSUME NEW k \in Keys PROVE KeyInv(k)'
  BY <1>4, KeyFrame DEF LocksInv, KeyInv
<1> QED BY <1>1, <1>2, <1>3, <1>4 DEF LocksInv

\* Nothing of the locks and places changes.
LEMMA NothingChanges ==
  ASSUME LocksInv, UNCHANGED <<scene, lockVars, at>>
  PROVE  LocksInv'
<1> USE DEF lockVars
<1>1. LockTypes' /\ \A v \in Units : UnitInv(v)'
  BY SceneFrame DEF LocksInv, LockTypes, UnitInv
<1>2. ASSUME NEW v \in Units, NEW k \in Keys PROVE PairInv(v, k)'
  <2>1. PairInv(v, k) /\ IsNext(v, k)' = IsNext(v, k)
    BY SceneFrame DEF LocksInv
  <2>2. WantedTimeout(v, k)' = WantedTimeout(v, k) /\ SetsTimeout' = SetsTimeout
    BY SceneFrame
  <2> QED BY <2>1, <2>2 DEF PairInv
<1>3. ASSUME NEW k \in Keys PROVE KeyInv(k)'
  BY <1>3, KeyFrame DEF LocksInv, KeyInv
<1> QED BY <1>1, <1>2, <1>3 DEF LocksInv

-----------------------------------------------------------------------------
(* Asking for a lock and being told of it. *)

LEMMA StepLockOne ==
  ASSUME LocksInv, NEW u \in Units, LockOne(u)
  PROVE  LocksInv'
<1>0. SceneOk /\ LockTypes /\ scene' = scene /\ UNCHANGED <<taken, error>> /\ at[u] = "locking"
  BY SceneFacts DEF LocksInv, LockTypes, LockOne
<1>1. PICK k \in Keys :
        /\ IsNext(u, k)
        /\ entries' = entries \cup {k}
        /\ arrivals' = [arrivals EXCEPT ![k] = Append(@, u)]
        /\ impatient' = IF SetsTimeout THEN [impatient EXCEPT ![u] = WantedTimeout(u, k)] ELSE impatient
        /\ \/ /\ GrantedAtOnce(u, k)
              /\ holders' = [holders EXCEPT ![k] = @ \cup {u}]
              /\ at' = [at EXCEPT ![u] = "granted"]
              /\ UNCHANGED queue
           \/ /\ ~GrantedAtOnce(u, k)
              /\ queue' = [queue EXCEPT ![k] = Append(@, u)]
              /\ at' = [at EXCEPT ![u] = "waiting"]
              /\ UNCHANGED holders
  BY DEF LockOne
<1>2. k \notin taken[u] /\ u \notin holders[k] /\ u \notin Members(queue[k]) /\ u \notin Members(arrivals[k])
  BY <1>0, <1>1 DEF LocksInv, PairInv, IsNext, Missing
<1>3. WantedTimeout(u, k) \in BOOLEAN
  BY <1>0, RequestFacts DEF WantedTimeout, SceneOk
<1>4. PICK l \in {"granted", "waiting"} : at' = [at EXCEPT ![u] = l]
  BY <1>1
<1>5. LockTypes'
  <2>1. Append(arrivals[k], u) \in Seq(Units) /\ Append(queue[k], u) \in Seq(Units)
    BY <1>0 DEF LockTypes
  <2>2. impatient' \in [Units -> BOOLEAN] /\ arrivals' \in [Keys -> Seq(Units)] /\ entries' \subseteq Keys
    BY <2>1, <1>0, <1>1, <1>3 DEF LockTypes
  <2>3. at' \in [Units -> Places]
    BY <1>0, <1>4 DEF LockTypes, Places
  <2>4. holders' \in [Keys -> SUBSET Units] /\ queue' \in [Keys -> Seq(Units)]
    <3>1. CASE GrantedAtOnce(u, k)
      <4>1. holders' = [holders EXCEPT ![k] = holders[k] \cup {u}] /\ queue' = queue
        BY <3>1, <1>1
      <4> QED BY <4>1, <1>0 DEF LockTypes
    <3>2. CASE ~GrantedAtOnce(u, k)
      <4>1. queue' = [queue EXCEPT ![k] = Append(queue[k], u)] /\ holders' = holders
        BY <3>2, <1>1
      <4> QED BY <4>1, <2>1, <1>0 DEF LockTypes
    <3> QED BY <3>1, <3>2
  <2> QED BY <2>2, <2>3, <2>4, <1>0 DEF LockTypes
<1>6. ASSUME NEW v \in Units PROVE UnitInv(v)'
  <2>1. UnitInv(v) /\ KeysOf(v)' = KeysOf(v)
    BY <1>0, SceneFrame DEF LocksInv
  <2>2. CASE v = u
    BY <2>2, <1>0, <1>4 DEF UnitInv, LockTypes, Working
  <2>3. CASE v # u
    BY <2>1, <2>3, <1>0, <1>1, <1>4 DEF UnitInv, LockTypes
  <2> QED BY <2>2, <2>3
<1>7. ASSUME NEW v \in Units, NEW j \in Keys PROVE PairInv(v, j)'
  <2>1. PairInv(v, j)
    BY DEF LocksInv
  <2>2. /\ IsNext(v, j)' = IsNext(v, j) /\ WantedTimeout(v, j)' = WantedTimeout(v, j)
        /\ SetsTimeout' = SetsTimeout
    BY <1>0, SceneFrame
  <2>3. j # k => holders'[j] = holders[j] /\ queue'[j] = queue[j] /\ arrivals'[j] = arrivals[j]
    BY <1>0, <1>1 DEF LockTypes
  <2>4. /\ Members(arrivals'[k]) = Members(arrivals[k]) \cup {u}
        /\ \/ /\ holders'[k] = holders[k] \cup {u} /\ queue' = queue /\ at' = [at EXCEPT ![u] = "granted"]
           \/ /\ holders' = holders /\ Members(queue'[k]) = Members(queue[k]) \cup {u}
              /\ at' = [at EXCEPT ![u] = "waiting"]
    BY <1>0, <1>1, AppendMembers DEF LockTypes
  <2>5. CASE v # u
    <3>1. at'[v] = at[v] /\ impatient'[v] = impatient[v] /\ taken'[v] = taken[v]
      BY <2>5, <1>0, <1>1, <1>4 DEF LockTypes
    <3>2. /\ v \in holders'[j] <=> v \in holders[j]
          /\ v \in Members(queue'[j]) <=> v \in Members(queue[j])
          /\ v \in Members(arrivals'[j]) <=> v \in Members(arrivals[j])
      BY <2>3, <2>4, <2>5
    <3> QED BY <2>1, <2>2, <3>1, <3>2 DEF PairInv
  <2>6. CASE v = u /\ j # k
    <3>1. ~IsNext(u, j)
      BY <2>6, <1>0, <1>1, NextIsUnique
    <3> QED BY <2>1, <2>2, <2>3, <2>6, <3>1, <1>0, <1>4 DEF PairInv, LockTypes
  <2>7. CASE v = u /\ j = k
    <3>1. at'[u] \in {"granted", "waiting"} /\ (SetsTimeout => impatient'[u] = WantedTimeout(u, k))
      BY <1>0, <1>1, <1>4 DEF LockTypes
    <3>2. at'[u] = "granted" => u \in holders'[k] /\ u \notin Members(queue'[k])
      BY <2>4, <1>0, <1>2 DEF LockTypes
    <3>3. at'[u] = "waiting" => u \notin holders'[k]
      BY <2>4, <1>0, <1>2 DEF LockTypes
    <3> QED BY <2>1, <2>2, <2>7, <3>1, <3>2, <3>3, <1>0, <1>1, <1>2 DEF PairInv
  <2> QED BY <2>5, <2>6, <2>7
<1>8. ASSUME NEW j \in Keys PROVE KeyInv(j)'
  <2>1. KeySafe(j, holders[j], queue[j], arrivals[j], j \in entries)
    BY DEF LocksInv, KeyInv
  <2>2. holders[j] \in SUBSET Units /\ queue[j] \in Seq(Units) /\ arrivals[j] \in Seq(Units)
    BY <1>0 DEF LockTypes
  <2>3. CASE j # k
    <3>1. /\ holders'[j] = holders[j] /\ queue'[j] = queue[j] /\ arrivals'[j] = arrivals[j]
          /\ (j \in entries') = (j \in entries)
      BY <2>3, <1>0, <1>1 DEF LockTypes
    <3> QED BY <2>1, <3>1, <1>0, KeyFrame
  <2>4. CASE j = k /\ GrantedAtOnce(u, k)
    <3>1. /\ holders'[j] = holders[j] \cup {u} /\ queue'[j] = queue[j] /\ arrivals'[j] = Append(arrivals[j], u)
          /\ (j \in entries') = TRUE
      BY <2>4, <1>0, <1>1 DEF LockTypes
    <3>2. ModeOf(u, j) \in Mode
      BY <1>0, RequestFacts
    <3>3. ~(j \in entries) \/ (queue[j] = <<>> /\ Compatible(holders[j], u, j))
      BY <2>4 DEF GrantedAtOnce
    <3>4. KeySafe(j, holders[j] \cup {u}, queue[j], Append(arrivals[j], u), TRUE)
      <4>1. u \notin Members(arrivals[j])
        BY <2>4, <1>2
      <4> QED BY <2>1, <2>2, <3>2, <3>3, <4>1, KeyGranted
    <3> QED BY <3>1, <3>4, <1>0, KeyFrame
  <2>5. CASE j = k /\ ~GrantedAtOnce(u, k)
    <3>1. /\ holders'[j] = holders[j] /\ queue'[j] = Append(queue[j], u) /\ arrivals'[j] = Append(arrivals[j], u)
          /\ (j \in entries') = TRUE
      BY <2>5, <1>0, <1>1 DEF LockTypes
    <3>2. ~(~(j \in entries) \/ (queue[j] = <<>> /\ Compatible(holders[j], u, j)))
      BY <2>5 DEF GrantedAtOnce
    <3>3. KeySafe(j, holders[j], Append(queue[j], u), Append(arrivals[j], u), TRUE)
      BY <2>1, <2>2, <2>5, <3>2, <1>2, KeyQueued
    <3> QED BY <3>1, <3>3, <1>0, KeyFrame
  <2> QED BY <2>3, <2>4, <2>5
<1> QED BY <1>5, <1>6, <1>7, <1>8 DEF LocksInv

LEMMA StepRegister ==
  ASSUME LocksInv, NEW u \in Units, Register(u)
  PROVE  LocksInv'
<1>0. /\ SceneOk /\ LockTypes /\ scene' = scene /\ UNCHANGED <<holders, queue, entries, arrivals>>
      /\ at[u] = "granted"
  BY SceneFacts DEF LocksInv, LockTypes, Register
<1>1. PICK k \in Keys :
        /\ IsNext(u, k)
        /\ taken' = [taken EXCEPT ![u] = @ \cup {k}]
        /\ IF Missing(u) = {k}
           THEN /\ at' = [at EXCEPT ![u] = "working"]
                /\ impatient' = [impatient EXCEPT ![u] = scene.impatient]
           ELSE at' = [at EXCEPT ![u] = "locking"] /\ UNCHANGED impatient
  BY DEF Register
<1>2. PICK l \in {"working", "locking"} :
        /\ at' = [at EXCEPT ![u] = l]
        /\ l = "working" => Missing(u) = {k} /\ impatient' = [impatient EXCEPT ![u] = scene.impatient]
  BY <1>1
<1>3. \A v \in Units : v # u => at'[v] = at[v] /\ impatient'[v] = impatient[v] /\ taken'[v] = taken[v]
  BY <1>0, <1>1, <1>2 DEF LockTypes
<1>4. at'[u] = l /\ taken'[u] = taken[u] \cup {k}
  BY <1>0, <1>1, <1>2 DEF LockTypes
<1>5. LockTypes'
  BY <1>0, <1>1 DEF LockTypes, Places, SceneOk
<1>6. ASSUME NEW v \in Units PROVE UnitInv(v)'
  <2>1. UnitInv(v) /\ KeysOf(v)' = KeysOf(v)
    BY <1>0, SceneFrame DEF LocksInv
  <2>2. CASE v = u
    BY <2>1, <2>2, <1>0, <1>2, <1>4 DEF UnitInv, LockTypes, Missing, Working
  <2>3. CASE v # u
    BY <2>1, <2>3, <1>0, <1>3 DEF UnitInv
  <2> QED BY <2>2, <2>3
<1>7. ASSUME NEW v \in Units, NEW j \in Keys PROVE PairInv(v, j)'
  <2>1. PairInv(v, j)
    BY DEF LocksInv
  <2>2. CASE v # u
    <3>1. /\ IsNext(v, j)' = IsNext(v, j) /\ WantedTimeout(v, j)' = WantedTimeout(v, j)
          /\ SetsTimeout' = SetsTimeout
      BY <2>2, <1>0, <1>3, SceneFrame
    <3> QED BY <2>1, <2>2, <3>1, <1>0, <1>3 DEF PairInv
  <2>3. CASE v = u
    <3>1. IsNext(u, j) => j = k
      BY <1>0, <1>1, NextIsUnique
    <3> QED BY <2>1, <2>3, <3>1, <1>0, <1>1, <1>4 DEF PairInv
  <2> QED BY <2>2, <2>3
<1>8. ASSUME NEW j \in Keys PROVE KeyInv(j)'
  BY <1>8, <1>0, KeyFrame DEF LocksInv, KeyInv
<1> QED BY <1>5, <1>6, <1>7, <1>8 DEF LocksInv

-----------------------------------------------------------------------------
(* Leaving keys. *)

\* After u left some keys for a place: the keys are safe, and a waiter is woken only for the key it
\* waits for.
Vacated(u, freed, place) ==
  /\ holders' \in [Keys -> SUBSET Units] /\ queue' \in [Keys -> Seq(Units)]
  /\ entries' \subseteq Keys /\ at' \in [Units -> Places]
  /\ \A k \in Keys : KeySafe(k, holders'[k], queue'[k], arrivals[k], k \in entries')
  /\ at'[u] = place
  /\ \A k \in freed : u \notin holders'[k] /\ u \notin Members(queue'[k])
  /\ \A k \in Keys \ freed : holders'[k] = holders[k] /\ queue'[k] = queue[k]
  /\ \A v \in Units \ {u} : at'[v] = at[v] \/ (at[v] = "waiting" /\ at'[v] = "granted")
  /\ \A v \in Units \ {u}, k \in Keys :
       /\ v \in holders'[k] <=>
            v \in holders[k] \/ (at[v] = "waiting" /\ at'[v] = "granted" /\ IsNext(v, k))
       /\ v \in Members(queue'[k]) => v \in Members(queue[k]) /\ at'[v] = "waiting"

LEMMA VacateFacts ==
  ASSUME LocksInv, NEW u \in Units, NEW freed \in SUBSET Keys, NEW place \in Places,
         Vacate(u, freed, place)
  PROVE  Vacated(u, freed, place)
<1>0. SceneOk /\ LockTypes
  BY SceneFacts DEF LocksInv, LockTypes
<1> DEFINE left(k) == holders[k] \ {u}
           rest(k) == Without(queue[k], u)
           count(k) == Pumped(left(k), rest(k), k)
           woken(k) == {rest(k)[i] : i \in 1 .. count(k)}
           tail(k) == SubSeq(rest(k), count(k) + 1, Len(rest(k)))
<1>1. /\ holders' = [k \in Keys |-> IF k \in freed THEN left(k) \cup woken(k) ELSE holders[k]]
      /\ queue' = [k \in Keys |-> IF k \in freed THEN tail(k) ELSE queue[k]]
      /\ entries' = entries \ {k \in freed : Deserted(left(k) \cup woken(k), rest(k))}
      /\ at' = [v \in Units |->
                  IF v = u THEN place
                  ELSE IF \E k \in freed : v \in woken(k) THEN "granted" ELSE at[v]]
  BY DEF Vacate
<1>2. ASSUME NEW k \in Keys
      PROVE  /\ tail(k) \in Seq(Units)
             /\ woken(k) \cup Members(tail(k)) = Members(queue[k]) \ {u}
             /\ woken(k) \cap Members(tail(k)) = {}
             /\ KeySafe(k, left(k) \cup woken(k), tail(k), arrivals[k],
                        k \in entries /\ ~Deserted(left(k) \cup woken(k), rest(k)))
  <2>1. holders[k] \in SUBSET Units /\ queue[k] \in Seq(Units) /\ arrivals[k] \in Seq(Units)
    BY <1>0 DEF LockTypes
  <2>2. \A v \in Units : ModeOf(v, k) \in Mode
    BY <1>0, RequestFacts
  <2>3. KeySafe(k, holders[k], queue[k], arrivals[k], k \in entries)
    BY DEF LocksInv, KeyInv
  <2>4. /\ Members(rest(k)) = Members(queue[k]) \ {u}
        /\ Granted(left(k), rest(k), arrivals[k], k \in entries, count(k), k)
    BY <2>1, <2>2, <2>3, KeyVacated, Zenon
  <2> HIDE DEF left, rest, count
  <2> QED BY <2>4 DEF Granted
<1> HIDE DEF rest, woken, tail
<1>3. \A k \in Keys : Members(queue[k]) \subseteq Units
  BY <1>0 DEF LockTypes, Members
<1>4. \A k \in Keys : woken(k) \subseteq Units /\ left(k) \cup woken(k) \subseteq Units
  BY <1>0, <1>2, <1>3 DEF LockTypes
<1>5. /\ holders' \in [Keys -> SUBSET Units] /\ queue' \in [Keys -> Seq(Units)]
      /\ entries' \subseteq Keys /\ at' \in [Units -> Places]
  <2>1. holders' \in [Keys -> SUBSET Units]
    BY <1>0, <1>1, <1>4 DEF LockTypes
  <2>2. queue' \in [Keys -> Seq(Units)]
    BY <1>0, <1>1, <1>2 DEF LockTypes
  <2>3. entries' \subseteq Keys /\ at' \in [Units -> Places]
    BY <1>0, <1>1 DEF LockTypes, Places
  <2> QED BY <2>1, <2>2, <2>3
<1>6. ASSUME NEW k \in Keys PROVE KeySafe(k, holders'[k], queue'[k], arrivals[k], k \in entries')
  <2>1. CASE k \in freed
    <3>1. /\ holders'[k] = left(k) \cup woken(k) /\ queue'[k] = tail(k)
          /\ (k \in entries') = (k \in entries /\ ~Deserted(left(k) \cup woken(k), rest(k)))
      BY <2>1, <1>1
    <3> HIDE DEF left
    <3> QED BY <3>1, <1>2
  <2>2. CASE k \notin freed
    <3>1. holders'[k] = holders[k] /\ queue'[k] = queue[k] /\ (k \in entries') = (k \in entries)
      BY <2>2, <1>1
    <3> QED BY <3>1 DEF LocksInv, KeyInv
  <2> QED BY <2>1, <2>2
\* Whoever is woken for a key was waiting for that key, and for no other.
<1>7. ASSUME NEW k \in freed, NEW v \in woken(k)
      PROVE  v # u /\ v \in Units /\ v \in Members(queue[k]) /\ at[v] = "waiting" /\ IsNext(v, k)
  <2>1. v # u /\ v \in Members(queue[k]) /\ v \in Units
    BY <1>2, <1>3
  <2> QED BY <2>1 DEF LocksInv, PairInv
<1>8. at'[u] = place
  BY <1>1
<1>9. ASSUME NEW v \in Units \ {u}
      PROVE  /\ at'[v] = at[v] \/ (at[v] = "waiting" /\ at'[v] = "granted")
             /\ at[v] = "waiting" /\ at'[v] = "granted" <=> \E k \in freed : v \in woken(k)
  <2>1. at'[v] = IF \E k \in freed : v \in woken(k) THEN "granted" ELSE at[v]
    BY <1>1
  <2> QED BY <2>1, <1>7
<1>10. ASSUME NEW v \in Units \ {u}, NEW k \in Keys
       PROVE  /\ v \in holders'[k] <=>
                   v \in holders[k] \/ (at[v] = "waiting" /\ at'[v] = "granted" /\ IsNext(v, k))
              /\ v \in Members(queue'[k]) => v \in Members(queue[k]) /\ at'[v] = "waiting"
  <2>1. at[v] = "waiting" /\ at'[v] = "granted" /\ IsNext(v, k) <=> k \in freed /\ v \in woken(k)
    <3>1. ASSUME at[v] = "waiting", at'[v] = "granted", IsNext(v, k) PROVE k \in freed /\ v \in woken(k)
      <4>1. PICK j \in freed : v \in woken(j)
        BY <3>1, <1>9
      <4>2. j = k
        BY <3>1, <4>1, <1>0, <1>7, NextIsUnique
      <4> QED BY <4>1, <4>2
    <3>2. ASSUME k \in freed, v \in woken(k) PROVE at[v] = "waiting" /\ at'[v] = "granted" /\ IsNext(v, k)
      BY <3>2, <1>7, <1>9
    <3> QED BY <3>1, <3>2
  <2>2. CASE k \in freed
    <3>1. holders'[k] = left(k) \cup woken(k) /\ queue'[k] = tail(k)
      BY <2>2, <1>1
    <3>2. v \in Members(tail(k)) => v \in Members(queue[k]) /\ v \notin woken(k)
      BY <1>2
    <3>3. ASSUME v \in Members(tail(k)) PROVE at'[v] = "waiting"
      <4>1. at[v] = "waiting" /\ IsNext(v, k)
        BY <3>2, <3>3 DEF LocksInv, PairInv
      <4>2. at'[v] # "granted"
        BY <2>1, <3>2, <3>3, <4>1
      <4> QED BY <4>1, <4>2, <1>9
    <3> QED BY <2>1, <2>2, <3>1, <3>2, <3>3
  <2>3. CASE k \notin freed
    <3>1. holders'[k] = holders[k] /\ queue'[k] = queue[k]
      BY <2>3, <1>1
    <3>2. ASSUME v \in Members(queue[k]) PROVE at'[v] = "waiting"
      <4>1. at[v] = "waiting" /\ IsNext(v, k)
        BY <3>2 DEF LocksInv, PairInv
      <4>2. at'[v] # "granted"
        BY <2>1, <2>3, <4>1
      <4> QED BY <4>1, <4>2, <1>9
    <3> QED BY <2>1, <2>3, <3>1, <3>2
  <2> QED BY <2>2, <2>3
<1>11. \A k \in freed : u \notin holders'[k] /\ u \notin Members(queue'[k])
  <2> SUFFICES ASSUME NEW k \in freed PROVE u \notin holders'[k] /\ u \notin Members(queue'[k])
    OBVIOUS
  <2>1. holders'[k] = left(k) \cup woken(k) /\ queue'[k] = tail(k)
    BY <1>1
  <2> QED BY <2>1, <1>2
<1>12. \A k \in Keys \ freed : holders'[k] = holders[k] /\ queue'[k] = queue[k]
  BY <1>1
<1> QED BY <1>5, <1>6, <1>8, <1>9, <1>10, <1>11, <1>12 DEF Vacated

\* A unit gives up the key it was granted or waits for, and fails.
LEMMA StepGivesUp ==
  ASSUME LocksInv, NEW u \in Units, NEW k \in Keys, IsNext(u, k), at[u] \in {"waiting", "granted"},
         Vacate(u, {k}, "failing"), UNCHANGED <<scene, taken, arrivals, impatient>>
  PROVE  LocksInv'
<1>0. SceneOk /\ LockTypes
  BY SceneFacts DEF LocksInv, LockTypes
<1>1. Vacated(u, {k}, "failing")
  <2>1. {k} \in SUBSET Keys /\ "failing" \in Places
    BY DEF Places
  <2> QED BY <2>1, VacateFacts, Zenon
<1>2. /\ at'[u] = "failing" /\ u \notin holders'[k] /\ u \notin Members(queue'[k])
      /\ \A j \in Keys : j # k => holders'[j] = holders[j] /\ queue'[j] = queue[j]
  BY <1>1 DEF Vacated
<1>3. LockTypes'
  BY <1>0, <1>1 DEF LockTypes, Vacated
<1>4. ASSUME NEW v \in Units PROVE UnitInv(v)'
  <2>1. UnitInv(v) /\ KeysOf(v)' = KeysOf(v)
    BY SceneFrame DEF LocksInv
  <2>2. CASE v = u
    BY <2>2, <1>2 DEF UnitInv, Working
  <2>3. CASE v # u
    BY <2>1, <2>3, <1>1 DEF UnitInv, Working, Vacated
  <2> QED BY <2>2, <2>3
<1>5. ASSUME NEW v \in Units, NEW j \in Keys PROVE PairInv(v, j)'
  <2>1. PairInv(v, j)
    BY DEF LocksInv
  <2>2. /\ IsNext(v, j)' = IsNext(v, j) /\ WantedTimeout(v, j)' = WantedTimeout(v, j)
        /\ SetsTimeout' = SetsTimeout
    BY SceneFrame
  <2>3. CASE v # u
    BY <2>1, <2>2, <2>3, <1>1 DEF PairInv, Vacated
  <2>4. CASE v = u
    <3>1. IsNext(u, j) => j = k
      BY <1>0, NextIsUnique
    <3>2. k \notin taken[u]
      BY DEF IsNext, Missing
    <3> QED BY <2>1, <2>2, <2>4, <3>1, <3>2, <1>2 DEF PairInv
  <2> QED BY <2>3, <2>4
<1>6. ASSUME NEW j \in Keys PROVE KeyInv(j)'
  BY <1>1, KeyFrame DEF Vacated
<1> QED BY <1>3, <1>4, <1>5, <1>6 DEF LocksInv

\* The transaction of a unit has ended.
LEMMA StepLetsGo ==
  ASSUME LocksInv, NEW u \in Units, NEW place \in {"idle", "failing", "settled"},
         at[u] \in {"working", "failing"}, LetGo(u, place), scene' = scene
  PROVE  LocksInv'
<1>0. /\ SceneOk /\ LockTypes /\ taken[u] \in SUBSET Keys /\ place \in Places
      /\ taken' = [taken EXCEPT ![u] = {}]
      /\ arrivals' = [k \in Keys |-> Without(arrivals[k], u)]
      /\ impatient' = [impatient EXCEPT ![u] = scene.impatient]
      /\ Vacate(u, taken[u], place)
  BY SceneFacts DEF LocksInv, LockTypes, LetGo, Places
<1>1. Vacated(u, taken[u], place)
  BY <1>0, VacateFacts, Zenon
<1>2. at'[u] = place
  BY <1>1 DEF Vacated
<1>3. ASSUME NEW k \in Keys PROVE u \notin holders'[k] /\ u \notin Members(queue'[k])
  <2>1. k \notin taken[u] => u \notin holders[k] /\ u \notin Members(queue[k])
    BY DEF LocksInv, PairInv
  <2> QED BY <2>1, <1>1 DEF Vacated
<1>4. ASSUME NEW k \in Keys
      PROVE  arrivals'[k] \in Seq(Units) /\ Members(arrivals'[k]) = Members(arrivals[k]) \ {u}
  <2>1. arrivals[k] \in Seq(Units) /\ NoDup(arrivals[k]) /\ arrivals'[k] = Without(arrivals[k], u)
    BY <1>0 DEF LockTypes, LocksInv, KeyInv, KeySafe
  <2> QED BY <2>1, WithoutFacts
<1>5. /\ taken'[u] = {} /\ impatient'[u] = scene.impatient
      /\ \A v \in Units : v # u => taken'[v] = taken[v] /\ impatient'[v] = impatient[v]
  BY <1>0 DEF LockTypes
<1>6. LockTypes'
  <2>1. taken' \in [Units -> SUBSET Keys] /\ impatient' \in [Units -> BOOLEAN]
    BY <1>0 DEF LockTypes, SceneOk
  <2>2. arrivals' \in [Keys -> Seq(Units)]
    BY <1>0, <1>4
  <2> QED BY <2>1, <2>2, <1>0, <1>1 DEF LockTypes, Vacated
<1>7. ASSUME NEW v \in Units PROVE UnitInv(v)'
  <2>1. UnitInv(v) /\ KeysOf(v)' = KeysOf(v)
    BY SceneFrame DEF LocksInv
  <2>2. CASE v = u
    BY <2>2, <1>2, <1>5 DEF UnitInv, Working
  <2>3. CASE v # u
    BY <2>1, <2>3, <1>1, <1>5 DEF UnitInv, Working, Vacated
  <2> QED BY <2>2, <2>3
<1>8. ASSUME NEW v \in Units, NEW j \in Keys PROVE PairInv(v, j)'
  <2>1. PairInv(v, j) /\ Members(arrivals'[j]) = Members(arrivals[j]) \ {u}
    BY <1>4 DEF LocksInv
  <2>2. CASE v # u
    <3>1. /\ IsNext(v, j)' = IsNext(v, j) /\ WantedTimeout(v, j)' = WantedTimeout(v, j)
          /\ SetsTimeout' = SetsTimeout
      BY <2>2, <1>5, SceneFrame
    <3> QED BY <2>1, <2>2, <3>1, <1>1, <1>5 DEF PairInv, Vacated
  <2>3. CASE v = u
    BY <2>1, <2>3, <1>2, <1>3, <1>5 DEF PairInv
  <2> QED BY <2>2, <2>3
<1>9. ASSUME NEW j \in Keys PROVE KeyInv(j)'
  <2>1. /\ holders'[j] \in SUBSET Units /\ queue'[j] \in Seq(Units) /\ arrivals[j] \in Seq(Units)
        /\ arrivals'[j] = Without(arrivals[j], u)
    BY <1>0, <1>1 DEF LockTypes, Vacated
  <2>2. KeySafe(j, holders'[j], queue'[j], arrivals[j], j \in entries') /\ u \notin holders'[j] \cup Members(queue'[j])
    BY <1>1, <1>3 DEF Vacated
  <2>3. KeySafe(j, holders'[j], queue'[j], Without(arrivals[j], u), j \in entries')
    BY <2>1, <2>2, KeyForgets, Zenon
  <2> QED BY <2>1, <2>3, KeyFrame
<1> QED BY <1>6, <1>7, <1>8, <1>9 DEF LocksInv

-----------------------------------------------------------------------------
(* All steps. *)

LEMMA StepBegin ==
  ASSUME LocksInv, NEW u \in Units, Begin(u)
  PROVE  LocksInv'
<1> DEFINE p == StartsAt(u)
<1>1. at[u] = "idle" /\ at' = [at EXCEPT ![u] = p] /\ UNCHANGED <<scene, lockVars>>
  BY DEF Begin, Start
<1>2. p \in {"working", "failing", "locking"} /\ p \in Places /\ (p = "working" => KeysOf(u) = {})
  BY DEF StartsAt, Places
<1> HIDE DEF p
<1> QED BY <1>1, <1>2, StepStays

LEMMA StepLocking ==
  ASSUME LocksInv, NEW u \in Units, Locking(u)
  PROVE  LocksInv'
<1>1. CASE LockOne(u)
  BY <1>1, StepLockOne
<1>2. CASE Register(u)
  BY <1>2, StepRegister
<1>3. ASSUME ProbeLost(u) \/ Timeout(u) PROVE LocksInv'
  <2>1. PICK k \in Keys : IsNext(u, k) /\ Vacate(u, {k}, "failing")
    BY <1>3 DEF ProbeLost, Timeout
  <2>2. at[u] \in {"waiting", "granted"} /\ UNCHANGED <<scene, taken, arrivals, impatient>>
    BY <1>3 DEF ProbeLost, Timeout
  <2> QED BY <2>1, <2>2, StepGivesUp
<1> QED BY <1>1, <1>2, <1>3 DEF Locking

\* The step of a unit: it reads, is refused, waits for a row, moves it or fails.
LEMMA StepWorks ==
  ASSUME LocksInv, NEW u \in Units,
         \/ Read(u) \/ RefuseMove(u) \/ Block(u) \/ MissRow(u) \/ SerializationFails(u)
         \/ MoveRow(u) \/ EndWait(u)
  PROVE  LocksInv'
<1>1. CASE Read(u)
  BY <1>1, NothingChanges DEF Read
<1>2. CASE Block(u)
  <2>1. at[u] \in Working /\ at' = [at EXCEPT ![u] = "blocked"] /\ UNCHANGED <<scene, lockVars>>
    BY <1>2 DEF Block, Asked, Asks, Working
  <2>2. "blocked" \in Working /\ "blocked" \in Places
    BY DEF Working, Places
  <2> QED BY <2>1, <2>2, StepStays
<1>3. CASE MoveRow(u)
  <2>1. PICK p \in {"failing", "working"} : at' = [at EXCEPT ![u] = p]
    BY <1>3 DEF MoveRow
  <2>2. at[u] \in Working /\ UNCHANGED <<scene, lockVars>>
    BY <1>3 DEF MoveRow, Reaches, Asked, Asks, Working
  <2>3. p \in Places /\ p \in Working \cup {"failing"}
    BY DEF Working, Places
  <2> QED BY <2>1, <2>2, <2>3, StepStays
<1>4. ASSUME RefuseMove(u) \/ MissRow(u) \/ SerializationFails(u) \/ EndWait(u) PROVE LocksInv'
  <2>1. at[u] \in Working
    BY <1>4 DEF RefuseMove, MissRow, SerializationFails, EndWait, Reaches, Asked, Asks, Working
  <2>2. at' = [at EXCEPT ![u] = "failing"] /\ UNCHANGED <<scene, lockVars>>
    BY <1>4 DEF RefuseMove, MissRow, SerializationFails, EndWait, Throws
  <2>3. "failing" \in Places
    BY DEF Places
  <2> QED BY <2>1, <2>2, <2>3, StepStays
<1> QED BY <1>1, <1>2, <1>3, <1>4

LEMMA StepEnds ==
  ASSUME LocksInv, NEW u \in Units, Commit(u) \/ LoseConnection(u) \/ Settle(u)
  PROVE  LocksInv'
<1>1. at[u] \in {"working", "failing"}
  BY DEF Commit, LoseConnection, Settle, Done
<1>2. PICK place \in {"idle", "failing", "settled"} : Leave(u, place)
  BY DEF Commit, LoseConnection, Settle
<1> QED BY <1>1, <1>2, StepLetsGo DEF Leave

LEMMA LocksInvariant == Spec => []LocksInv
<1>1. LocksInv /\ [Next]_vars => LocksInv'
  <2> SUFFICES ASSUME LocksInv, [Next]_vars PROVE LocksInv'
    OBVIOUS
  <2>1. CASE UNCHANGED vars
    BY <2>1, NothingChanges DEF vars, lockVars
  <2>2. ASSUME NEW u \in Units, Step(u) PROVE LocksInv'
    BY <2>2, StepBegin, StepLocking, StepWorks, StepEnds DEF Step
  <2> QED BY <2>1, <2>2 DEF Next, AllSettled
<1> QED BY <1>1, InitLocks, PTL DEF Spec

-----------------------------------------------------------------------------
(* Results. *)

\* Two units that declared one lock, one of them exclusively, never work together: for any units and
\* declarations, keys that names share, timeouts, sessions and retries (canonicalLocks, lockAll, pump).
THEOREM DeclarationsExclude == Spec => []DeclaredLocksExclude
<1>1. LocksInv => DeclaredLocksExclude
  <2> SUFFICES ASSUME LocksInv, NEW u \in Units, NEW v \in Units, u # v, at[u] \in Working, at[v] \in Working,
                      NEW p \in Of(u), NEW q \in Of(v), p.name = q.name
               PROVE  p.mode = "shared" /\ q.mode = "shared"
    BY DEF DeclaredLocksExclude
  <2> DEFINE k == Key(p)
  <2>1. SceneOk
    BY SceneFacts DEF LocksInv, LockTypes
  <2>2. p \in Request /\ q \in Request /\ k \in KeysOf(u) /\ Key(q) \in KeysOf(v) /\ k \in Keys
    BY <2>1, RequestFacts
  <2>3. Key(q) = k
    BY DEF Key
  <2>4. k \in taken[u] /\ k \in taken[v]
    BY <2>2, <2>3 DEF LocksInv, UnitInv
  <2>5. u \in holders[k] /\ v \in holders[k]
    BY <2>2, <2>4 DEF LocksInv, PairInv
  <2>6. ModeOf(u, k) = "shared" /\ ModeOf(v, k) = "shared"
    BY <2>2, <2>5 DEF LocksInv, KeyInv, KeySafe
  <2>7. p.mode # "exclusive" /\ q.mode # "exclusive"
    BY <2>3, <2>6 DEF ModeOf
  <2> QED BY <2>2, <2>7 DEF Request, Mode
<1> QED BY <1>1, LocksInvariant, PTL

\* No waiter is overtaken, and whoever is first in a queue is really blocked: for any number of
\* readers, writers, timeouts and lost probes (MemoryLockPort's pump and releaser).
THEOREM QueuesAreFair == Spec => []QueueIsFair
<1>1. LocksInv => QueueIsFair
  <2> SUFFICES ASSUME LocksInv PROVE QueueIsFair
    OBVIOUS
  <2>1. ASSUME NEW k \in Keys PROVE queue[k] # <<>> => ~Compatible(holders[k], queue[k][1], k)
    BY <2>1 DEF LocksInv, KeyInv, KeySafe
  <2>2. ASSUME NEW k \in Keys, NEW u \in holders[k], NEW v \in Waiters(k) PROVE ArrivedBefore(k, u, v)
    <3>1. v \in Members(queue[k])
      BY DEF Waiters, Members
    <3>2. Before(arrivals[k], u, v)
      BY <3>1 DEF LocksInv, KeyInv, KeySafe
    <3> QED BY <3>2 DEF ArrivedBefore, Before
  <2> QED BY <2>1, <2>2 DEF QueueIsFair, HeadIsBlocked, NoOvertaking
<1> QED BY <1>1, LocksInvariant, PTL

\* A lock's timeout bounds the wait for that lock and nothing else: no later lock and no row lock of
\* the steps (lockAll's set_config and its restore).
THEOREM TimeoutsDoNotLeak == Spec => []TimeoutsStayWithTheirLocks
<1>1. LocksInv => TimeoutsStayWithTheirLocks
  <2> SUFFICES ASSUME LocksInv, NEW u \in Units
               PROVE  /\ at[u] \in Working => impatient[u] = scene.impatient
                      /\ at[u] = "waiting" =>
                           \A k \in Keys : IsNext(u, k) /\ SetsTimeout =>
                             impatient[u] = (scene.impatient \/ Timed(u, k))
    BY DEF TimeoutsStayWithTheirLocks
  <2>1. UnitInv(u) /\ \A k \in Keys : PairInv(u, k)
    BY DEF LocksInv
  <2>2. at[u] \in Working => impatient[u] = scene.impatient
    BY <2>1 DEF UnitInv
  <2>3. ASSUME at[u] = "waiting", NEW k \in Keys, IsNext(u, k), SetsTimeout
        PROVE  impatient[u] = (scene.impatient \/ Timed(u, k))
    BY <2>1, <2>3 DEF PairInv, WantedTimeout
  <2> QED BY <2>2, <2>3
<1> QED BY <1>1, LocksInvariant, PTL

\* An entry that is gone from the port's map is gone with its holders and waiters: whoever asks next
\* starts anew and forgets nobody (MemoryLockPort's releaser).
THEOREM EntriesGoEmpty ==
  Spec => [](\A k \in Keys \ entries : holders[k] = {} /\ queue[k] = <<>>)
<1>1. LocksInv => \A k \in Keys \ entries : holders[k] = {} /\ queue[k] = <<>>
  BY DEF LocksInv, KeyInv, KeySafe
<1> QED BY <1>1, LocksInvariant, PTL

-----------------------------------------------------------------------------
(* Rows: every entity has one path of moves, which a transaction continues. *)

RowType == [state : DOMAIN Machine, version : Nat]
MoveMade == [unit : Units, id : Entities, by : {"sources", "state", "version"},
             read : RowType \cup {NoRow}, before : RowType, after : RowType]

\* The row after the first n moves.
RowAt(path, n) == IF n = 0 THEN Created ELSE path[n].after

\* Each move replaces the row that the one before it left.
IsPath(path) ==
  \A i \in 1 .. Len(path) :
    path[i].before = RowAt(path, i - 1) /\ path[i].after.version = i /\ Legal(path[i])

Extends(path, longer) ==
  /\ Len(path) <= Len(longer)
  /\ \A n \in 0 .. Len(path) : RowAt(longer, n) = RowAt(path, n)

\* The moves of an entity as u will have committed them.
Path(u, e) == history[e] \o pending[u][e]

RowTypes ==
  /\ scene \in Scenes
  /\ history \in [Entities -> Seq(MoveMade)]
  /\ pending \in [Units -> [Entities -> Seq(MoveMade)]]
  /\ made \in [Units -> Nat]
  /\ seen \in [Units -> RowType \cup {NoRow}]
  /\ snapshot \in [Units -> {<<>>} \cup [Entities -> Nat]]

\* What u has read is a row of its path, and what it waits to do was legal when it asked.
Reads(u) ==
  /\ made[u] <= Len(scene.moves[u])
  /\ seen[u] # NoRow =>
       /\ Todo(u)
       /\ seen[u].version <= Len(Path(u, Now(u).id))
       /\ seen[u] = RowAt(Path(u, Now(u).id), seen[u].version)
  /\ at[u] = "blocked" => Todo(u) /\ ~Illegal(u) /\ (Now(u).by # "sources" => seen[u] # NoRow)
  /\ snapshot[u] # <<>> => \A e \in Entities : snapshot[u][e] <= Len(history[e])

\* A transaction holds the rows it has changed.
RowLocks ==
  /\ \A u, v \in Units, e \in Entities : u # v => pending[u][e] = <<>> \/ pending[v][e] = <<>>
  /\ scene.port = "memory" => \A u \in Units, e \in Entities : pending[u][e] = <<>>

RowsInv ==
  /\ RowTypes
  /\ \A e \in Entities : IsPath(history[e])
  /\ \A u \in Units, e \in Entities : IsPath(Path(u, e))
  /\ RowLocks
  /\ \A u \in Units : Reads(u)

\* What a scene declares of the moves.
LEMMA MoveFacts ==
  ASSUME scene \in Scenes, NEW u \in Units
  PROVE  /\ scene.moves[u] \in Seq(Move) /\ Len(scene.moves[u]) \in Nat
         /\ scene.retried \subseteq Kinds
         /\ \A n \in Nat : n < Len(scene.moves[u]) => scene.moves[u][n + 1] \in Move
  BY MovesAssumption

LEMMA RowFacts ==
  /\ Created \in RowType /\ NoRow \notin RowType
  /\ NoMoves \in [Entities -> Seq(MoveMade)]
  /\ \A e \in Entities : NoMoves[e] = <<>>
  BY MachineAssumption DEF Created, NoRow, RowType, NoMoves

\* A path keeps its rows when a move is appended, and goes on when the move starts from its last row.
LEMMA PathGrows ==
  ASSUME NEW p \in Seq(MoveMade), IsPath(p), NEW m \in MoveMade,
         m.before = RowAt(p, Len(p)), m.after.version = Len(p) + 1, Legal(m)
  PROVE  /\ Append(p, m) \in Seq(MoveMade) /\ Len(Append(p, m)) = Len(p) + 1
         /\ Len(Append(p, m)) \in Nat /\ Len(p) <= Len(Append(p, m))
         /\ IsPath(Append(p, m)) /\ Extends(p, Append(p, m))
<1>1. /\ Len(p) \in Nat /\ Append(p, m) \in Seq(MoveMade) /\ Len(Append(p, m)) = Len(p) + 1
      /\ \A i \in 1 .. Len(p) : Append(p, m)[i] = p[i]
      /\ Append(p, m)[Len(p) + 1] = m
  OBVIOUS
<1>2. \A n \in 0 .. Len(p) : RowAt(Append(p, m), n) = RowAt(p, n)
  BY <1>1 DEF RowAt
<1>3. IsPath(Append(p, m))
  BY <1>1, <1>2 DEF IsPath
<1>4. Extends(p, Append(p, m))
  BY <1>1, <1>2 DEF Extends
<1> QED BY <1>1, <1>3, <1>4

\* Two sequences one after the other.
LEMMA Concatenated ==
  ASSUME NEW S, NEW p \in Seq(S), NEW q \in Seq(S)
  PROVE  /\ p \o q \in Seq(S) /\ Len(p \o q) = Len(p) + Len(q)
         /\ Len(p) \in Nat /\ Len(q) \in Nat
         /\ \A i \in 1 .. Len(p) : (p \o q)[i] = p[i]
         /\ \A i \in 1 .. Len(q) : (p \o q)[Len(p) + i] = q[i]
         /\ q = <<>> => p \o q = p
         /\ p = <<>> => p \o q = q
         /\ \A x \in S : p \o Append(q, x) = Append(p \o q, x)
  OBVIOUS

LEMMA Followed ==
  ASSUME NEW S, NEW p \in Seq(S), NEW q \in Seq(S), NEW x \in S
  PROVE  Append(q, x) \in Seq(S) /\ p \o Append(q, x) = Append(p \o q, x)
  OBVIOUS

LEMMA NothingFollows == ASSUME NEW S, NEW p \in Seq(S) PROVE p \o <<>> = p
  OBVIOUS

\* The latest row of an entity, and the one a statement sees, are rows of the unit's path.
LEMMA RowsOfPath ==
  ASSUME RowsInv, NEW u \in Units, NEW e \in Entities
  PROVE  /\ Path(u, e) \in Seq(MoveMade) /\ Len(Path(u, e)) \in Nat
         /\ \A n \in 0 .. Len(Path(u, e)) :
              RowAt(Path(u, e), n) \in RowType /\ RowAt(Path(u, e), n).version = n
         /\ Latest(u, e) = RowAt(Path(u, e), Len(Path(u, e)))
         /\ \E n \in 0 .. Len(Path(u, e)) : Visible(u, e) = RowAt(Path(u, e), n)
<1> DEFINE h == history[e]
           p == pending[u][e]
           q == Path(u, e)
<1>0. h = history[e] /\ p = pending[u][e] /\ q = Path(u, e)
  OBVIOUS
<1>1. h \in Seq(MoveMade) /\ p \in Seq(MoveMade) /\ q = h \o p
  BY DEF RowsInv, RowTypes, Path
<1>3. IsPath(q)
  BY DEF RowsInv
<1> HIDE DEF h, p, q
<1>2. /\ q \in Seq(MoveMade) /\ Len(q) = Len(h) + Len(p) /\ Len(q) \in Nat
      /\ \A i \in 1 .. Len(h) : q[i] = h[i]
      /\ \A i \in 1 .. Len(p) : q[Len(h) + i] = p[i]
      /\ Len(h) \in Nat /\ Len(p) \in Nat
  <2>1. h \o p \in Seq(MoveMade) /\ Len(h) \in Nat /\ Len(p) \in Nat /\ Len(h \o p) = Len(h) + Len(p)
    BY <1>1, Concatenated
  <2> QED BY <1>1, <2>1, Concatenated
<1>4. \A n \in 0 .. Len(q) : RowAt(q, n) \in RowType /\ RowAt(q, n).version = n
  <2> SUFFICES ASSUME NEW n \in 0 .. Len(q) PROVE RowAt(q, n) \in RowType /\ RowAt(q, n).version = n
    OBVIOUS
  <2>1. CASE n = 0
    BY <2>1, RowFacts DEF RowAt, Created
  <2>2. CASE n # 0
    <3>1. n \in 1 .. Len(q)
      BY <2>2, <1>2
    <3>2. q[n] \in MoveMade
      BY <3>1, <1>2
    <3> QED BY <2>2, <3>1, <3>2, <1>3 DEF RowAt, IsPath, MoveMade
  <2> QED BY <2>1, <2>2
<1>5. Row(e) = RowAt(q, Len(h))
  <2>1. CASE h = <<>>
    BY <2>1, <1>0 DEF Row, Last, RowAt
  <2>2. CASE h # <<>>
    <3>1. Len(h) # 0 /\ q[Len(h)] = h[Len(h)]
      BY <1>1, <1>2, <2>2
    <3> QED BY <3>1, <2>2, <1>0 DEF Row, Last, RowAt
  <2> QED BY <2>1, <2>2
<1>6. ASSUME p # <<>> PROVE p[Len(p)].after = RowAt(q, Len(q))
  <2>1. Len(p) # 0
    BY <1>1, <1>6
  <2>2. q[Len(h) + Len(p)] = p[Len(p)] /\ Len(q) # 0
    BY <2>1, <1>2
  <2> QED BY <2>2, <1>2 DEF RowAt
<1>7. p = <<>> => Len(q) = Len(h)
  BY <1>1, <1>2
<1>8. Latest(u, e) = RowAt(q, Len(q))
  BY <1>0, <1>5, <1>6, <1>7 DEF Latest, Last
<1>9. \E n \in 0 .. Len(h) : AsOf(u, e) = RowAt(q, n)
  <2> DEFINE s == Snapshot(u)[e]
  <2>1. s \in 0 .. Len(h)
    <3>1. snapshot[u] \in {<<>>} \cup [Entities -> Nat]
      BY DEF RowsInv, RowTypes
    <3>2. CASE snapshot[u] = <<>>
      BY <3>2, <1>0, <1>2 DEF Snapshot
    <3>3. CASE snapshot[u] # <<>>
      <4>1. snapshot[u][e] \in Nat /\ snapshot[u][e] <= Len(h)
        BY <3>1, <3>3, <1>0 DEF RowsInv, Reads
      <4> QED BY <4>1, <3>3, <1>2 DEF Snapshot
    <3> QED BY <3>2, <3>3
  <2> HIDE DEF s
  <2>2. SubSeq(h, 1, s) \in Seq(MoveMade) /\ Len(SubSeq(h, 1, s)) = s /\ \A i \in 1 .. s : SubSeq(h, 1, s)[i] = h[i]
    BY <2>1, <1>1, <1>2
  <2>3. AsOf(u, e) = Last(SubSeq(h, 1, s), Created)
    BY <1>0 DEF AsOf, s
  <2>4. s = 0 => AsOf(u, e) = RowAt(q, s)
    <3>1. s = 0 => SubSeq(h, 1, s) = <<>>
      BY <2>2
    <3> QED BY <3>1, <2>3 DEF Last, RowAt
  <2>5. s # 0 => AsOf(u, e) = RowAt(q, s)
    <3> SUFFICES ASSUME s # 0 PROVE AsOf(u, e) = RowAt(q, s)
      OBVIOUS
    <3>1. SubSeq(h, 1, s) # <<>> /\ SubSeq(h, 1, s)[s] = h[s] /\ q[s] = h[s]
      BY <2>1, <2>2, <1>2
    <3>2. AsOf(u, e) = q[s].after
      BY <2>2, <2>3, <3>1 DEF Last
    <3> QED BY <3>2 DEF RowAt
  <2>6. AsOf(u, e) = RowAt(q, s)
    BY <2>4, <2>5
  <2> QED BY <2>1, <2>6
<1>10. \E n \in 0 .. Len(q) : Visible(u, e) = RowAt(q, n)
  <2>1. CASE p # <<>>
    <3>1. Visible(u, e) = p[Len(p)].after
      BY <2>1, <1>0 DEF Visible, Last
    <3>2. Visible(u, e) = RowAt(q, Len(q)) /\ Len(q) \in 0 .. Len(q)
      BY <2>1, <3>1, <1>2, <1>6
    <3> QED BY <3>2
  <2>2. CASE p = <<>>
    <3>1. Visible(u, e) = IF Fixes THEN AsOf(u, e) ELSE Row(e)
      BY <2>2, <1>0 DEF Visible, Last
    <3>2. PICK n \in 0 .. Len(h) : AsOf(u, e) = RowAt(q, n)
      BY <1>9
    <3>3. /\ n \in 0 .. Len(q) /\ Len(h) \in 0 .. Len(q)
          /\ Visible(u, e) \in {RowAt(q, n), RowAt(q, Len(h))}
      BY <3>1, <3>2, <1>2, <1>5
    <3> QED BY <3>3
  <2> QED BY <2>1, <2>2
<1> QED BY <1>0, <1>2, <1>4, <1>8, <1>10

LEMMA InitRows == Init => RowsInv
<1> SUFFICES ASSUME Init PROVE RowsInv
  OBVIOUS
<1> USE DEF Init, LockInit
<1>1. RowTypes
  BY RowFacts DEF RowTypes
<1>2. \A u \in Units, e \in Entities : history[e] = <<>> /\ pending[u][e] = <<>> /\ Path(u, e) = <<>>
  BY RowFacts DEF Path
<1>3. IsPath(<<>>)
  BY DEF IsPath
<1>4. ASSUME NEW u \in Units PROVE Reads(u)
  <2>1. Len(scene.moves[u]) \in Nat
    BY MoveFacts
  <2>2. seen[u] = NoRow /\ at[u] = "idle" /\ snapshot[u] = <<>> /\ made[u] = 0
    OBVIOUS
  <2> QED BY <2>1, <2>2 DEF Reads
<1>5. RowLocks
  BY <1>2 DEF RowLocks
<1>6. \A e \in Entities : IsPath(history[e])
  BY <1>3 DEF NoMoves
<1>7. \A u \in Units, e \in Entities : IsPath(Path(u, e))
  BY <1>2, <1>3
<1> QED BY <1>1, <1>4, <1>5, <1>6, <1>7 DEF RowsInv

-----------------------------------------------------------------------------
(* What a step may do to the paths of others. *)

\* A transaction sees what is committed when its snapshot is taken.
LEMMA SnapshotTaken ==
  ASSUME RowsInv, NEW u \in Units, snapshot' = snapshot \/ TakesSnapshot(u)
  PROVE  /\ snapshot' \in [Units -> {<<>>} \cup [Entities -> Nat]]
         /\ \A v \in Units : snapshot'[v] # <<>> =>
              \A e \in Entities : snapshot'[v][e] <= Len(history[e])
<1>1. /\ snapshot \in [Units -> {<<>>} \cup [Entities -> Nat]]
      /\ \A v \in Units : snapshot[v] # <<>> => \A e \in Entities : snapshot[v][e] <= Len(history[e])
      /\ \A e \in Entities : Len(history[e]) \in Nat
  BY DEF RowsInv, RowTypes, Reads
<1>2. Snapshot(u) \in [Entities -> Nat] /\ \A e \in Entities : Snapshot(u)[e] <= Len(history[e])
  <2>1. CASE snapshot[u] = <<>>
    BY <2>1, <1>1 DEF Snapshot
  <2>2. CASE snapshot[u] # <<>>
    BY <2>2, <1>1 DEF Snapshot
  <2> QED BY <2>1, <2>2
<1>3. snapshot' = snapshot \/ snapshot' = [snapshot EXCEPT ![u] = Snapshot(u)]
  BY DEF TakesSnapshot
<1> HIDE DEF Snapshot
<1>4. CASE snapshot' = snapshot
  BY <1>1, <1>4
<1>5. CASE snapshot' = [snapshot EXCEPT ![u] = Snapshot(u)]
  <2>1. \A v \in Units : snapshot'[v] = IF v = u THEN Snapshot(u) ELSE snapshot[v]
    BY <1>1, <1>5
  <2>2. snapshot' \in [Units -> {<<>>} \cup [Entities -> Nat]]
    BY <1>1, <1>2, <1>5
  <2> QED BY <1>1, <1>2, <2>1, <2>2
<1> QED BY <1>3, <1>4, <1>5

\* What a unit has read stays a row of its path when the path grows.
LEMMA ReadsStay ==
  ASSUME RowsInv, NEW v \in Units, scene' = scene, seen'[v] = seen[v], made'[v] = made[v],
         at'[v] = "blocked" => at[v] = "blocked" \/ Asked(v),
         \A e \in Entities : Extends(Path(v, e), Path(v, e)') /\ Len(Path(v, e)') \in Nat,
         snapshot'[v] # <<>> => \A e \in Entities : snapshot'[v][e] <= Len(history'[e])
  PROVE  Reads(v)'
<1>1. Reads(v) /\ scene \in Scenes /\ made[v] \in Nat /\ seen[v] \in RowType \cup {NoRow}
  BY DEF RowsInv, RowTypes
<1>2. Todo(v)' = Todo(v) /\ Now(v)' = Now(v) /\ Illegal(v)' = Illegal(v)
  BY DEF Todo, Now, Illegal, Sources
<1>3. seen[v] # NoRow => Now(v).id \in Entities
  BY <1>1, MoveFacts DEF Reads, Todo, Now, Move
<1>4. ASSUME seen[v] # NoRow, NEW e \in Entities, e = Now(v).id
      PROVE  seen[v].version <= Len(Path(v, e)') /\ seen[v] = RowAt(Path(v, e)', seen[v].version)
  <2> DEFINE n == seen[v].version
  <2>1. n \in Nat /\ n <= Len(Path(v, e)) /\ seen[v] = RowAt(Path(v, e), n) /\ Len(Path(v, e)) \in Nat
    BY <1>1, <1>4, RowsOfPath DEF Reads, RowType
  <2>2. Extends(Path(v, e), Path(v, e)') /\ Len(Path(v, e)') \in Nat
    OBVIOUS
  <2> HIDE DEF n
  <2>3. n <= Len(Path(v, e)') /\ seen[v] = RowAt(Path(v, e)', n)
    BY <2>1, <2>2 DEF Extends
  <2> QED BY <2>3 DEF n
<1>5. at'[v] = "blocked" => Todo(v) /\ ~Illegal(v) /\ (Now(v).by # "sources" => seen[v] # NoRow)
  BY <1>1 DEF Reads, Asked, Asks
<1> QED BY <1>1, <1>2, <1>3, <1>4, <1>5 DEF Reads, Path

-----------------------------------------------------------------------------
(* The steps, and the rows. *)

\* A step that moves nothing: it takes locks, reads, waits for a row or fails.
LEMMA RowsStay ==
  ASSUME RowsInv, NEW u \in Units, UNCHANGED <<scene, history, pending, made>>,
         snapshot' = snapshot \/ TakesSnapshot(u),
         \A v \in Units : at'[v] = "blocked" => at[v] = "blocked" \/ Asked(v),
         \/ seen' = seen
         \/ /\ seen' = [seen EXCEPT ![u] = Visible(u, Now(u).id)]
            /\ Todo(u) /\ at'[u] # "blocked"
  PROVE  RowsInv'
<1>0. RowTypes
  BY DEF RowsInv
<1>1. \A v \in Units, e \in Entities : Path(v, e)' = Path(v, e) /\ Len(Path(v, e)) \in Nat
  BY RowsOfPath DEF Path
<1>2. \A v \in Units, e \in Entities : Extends(Path(v, e), Path(v, e))
  BY <1>1 DEF Extends
<1>3. /\ snapshot' \in [Units -> {<<>>} \cup [Entities -> Nat]]
      /\ \A v \in Units : snapshot'[v] # <<>> => \A e \in Entities : snapshot'[v][e] <= Len(history'[e])
  BY SnapshotTaken
<1>4. ASSUME NEW v \in Units, seen'[v] = seen[v] PROVE Reads(v)'
  BY <1>1, <1>2, <1>3, <1>4, ReadsStay
<1>5. CASE seen' = seen
  BY <1>0, <1>1, <1>3, <1>4, <1>5 DEF RowsInv, RowTypes, RowLocks
<1>6. CASE /\ seen' = [seen EXCEPT ![u] = Visible(u, Now(u).id)]
           /\ Todo(u) /\ at'[u] # "blocked"
  <2>1. PICK e \in Entities : e = Now(u).id /\ Reads(u)
    BY <1>0, <1>6, MoveFacts DEF RowsInv, RowTypes, Todo, Now, Move
  <2>2. PICK n \in 0 .. Len(Path(u, e)) : Visible(u, e) = RowAt(Path(u, e), n)
    BY <2>1, RowsOfPath
  <2>3. Visible(u, e) \in RowType /\ Visible(u, e).version = n /\ n <= Len(Path(u, e))
    BY <1>1, <2>1, <2>2, RowsOfPath
  <2>4. \A v \in Units : seen'[v] = IF v = u THEN Visible(u, e) ELSE seen[v]
    BY <1>0, <1>6, <2>1 DEF RowTypes
  <2>5. seen' \in [Units -> RowType \cup {NoRow}]
    BY <1>0, <1>6, <2>1, <2>3 DEF RowTypes
  <2>6. Now(u)' = Now(u) /\ Todo(u)' = Todo(u)
    BY DEF Now, Todo
  <2>7. Path(u, e)' = Path(u, e)
    BY <1>1, <2>1
  <2>8. seen'[u] = RowAt(Path(u, e), n) /\ seen'[u].version = n
    BY <2>2, <2>3, <2>4
  <2>9. Reads(u)'
    BY <1>3, <1>6, <2>1, <2>3, <2>6, <2>8 DEF Reads, Path
  <2>10. \A v \in Units : Reads(v)'
    BY <1>4, <2>4, <2>9
  <2> QED BY <1>0, <1>1, <1>3, <2>5, <2>10 DEF RowsInv, RowTypes, RowLocks
<1> QED BY <1>5, <1>6

\* The move an UPDATE makes continues the path of its entity, and the machine lists it.
LEMMA MoveContinues ==
  ASSUME RowsInv, NEW u \in Units, MoveRow(u)
  PROVE  /\ Now(u).id \in Entities /\ Todo(u)
         /\ Moved(u) \in MoveMade /\ Moved(u).id = Now(u).id /\ Moved(u).unit = u
         /\ Moved(u).before = RowAt(Path(u, Now(u).id), Len(Path(u, Now(u).id)))
         /\ Moved(u).after.version = Len(Path(u, Now(u).id)) + 1
         /\ Legal(Moved(u))
<1> DEFINE e == Now(u).id
           q == Path(u, e)
<1>1. /\ Reaches(u) /\ Matches(u, Latest(u, e))
      /\ Reads(u) /\ scene \in Scenes /\ made[u] \in Nat /\ seen[u] \in RowType \cup {NoRow}
  BY DEF MoveRow, RowsInv, RowTypes
<1>2. Todo(u) /\ ~Illegal(u) /\ (Now(u).by # "sources" => seen[u] # NoRow)
  BY <1>1 DEF Reaches, Asked, Asks, Reads
<1>3. Now(u) \in Move /\ e \in Entities
  BY <1>1, <1>2, MoveFacts DEF Todo, Now, Move
<1>4. /\ Len(q) \in Nat /\ Latest(u, e) = RowAt(q, Len(q))
      /\ RowAt(q, Len(q)) \in RowType /\ RowAt(q, Len(q)).version = Len(q)
  BY <1>3, RowsOfPath
<1>5. /\ Moved(u).before = Latest(u, e) /\ Moved(u).unit = u /\ Moved(u).id = e
      /\ Moved(u).by = Now(u).by /\ Moved(u).read = seen[u]
      /\ Moved(u).after = [state |-> Now(u).to, version |-> Latest(u, e).version + 1]
  BY DEF Moved
<1>6. Moved(u) \in MoveMade
  BY <1>1, <1>3, <1>4 DEF Moved, MoveMade, Move, RowType
<1>7. Latest(u, e).state \in Sources(u) /\ CanTransition(Machine, Latest(u, e).state, Now(u).to)
  BY <1>1, <1>2 DEF Matches, Illegal
<1>8. Now(u).by = "state" => seen[u].state = Latest(u, e).state
  BY <1>7 DEF Sources
<1>9. Now(u).by = "version" => seen[u] = Latest(u, e)
  <2> SUFFICES ASSUME Now(u).by = "version" PROVE seen[u] = Latest(u, e)
    OBVIOUS
  <2>1. seen[u].version = Latest(u, e).version
    BY <1>1 DEF Matches
  <2>2. seen[u] = RowAt(q, seen[u].version)
    BY <1>1, <1>2 DEF Reads
  <2> QED BY <1>4, <2>1, <2>2
<1>10. Legal(Moved(u))
  BY <1>5, <1>7, <1>8, <1>9 DEF Legal
<1> QED BY <1>2, <1>3, <1>4, <1>5, <1>6, <1>10

LEMMA RowsMove ==
  ASSUME LocksInv, RowsInv, NEW u \in Units, MoveRow(u)
  PROVE  RowsInv'
<1>0. /\ RowTypes /\ RowLocks /\ scene' = scene /\ scene \in Scenes /\ at \in [Units -> Places]
      /\ made' = [made EXCEPT ![u] = @ + 1] /\ seen' = [seen EXCEPT ![u] = NoRow]
      /\ at' = [at EXCEPT ![u] = IF scene.opaque THEN "failing" ELSE "working"]
      /\ TakesSnapshot(u)
  BY DEF RowsInv, RowTypes, MoveRow, LocksInv, LockTypes
<1>1. PICK e \in Entities, m \in MoveMade, q \in Seq(MoveMade) :
        /\ e = Now(u).id /\ m = Moved(u) /\ q = Path(u, e) /\ Todo(u)
        /\ m.before = RowAt(q, Len(q)) /\ m.after.version = Len(q) + 1 /\ Legal(m)
  BY MoveContinues, RowsOfPath
<1>2. /\ history[e] \in Seq(MoveMade) /\ pending[u][e] \in Seq(MoveMade) /\ q = history[e] \o pending[u][e]
      /\ q \in Seq(MoveMade) /\ IsPath(q) /\ Len(q) \in Nat
  BY <1>0, <1>1, RowsOfPath DEF RowsInv, RowTypes, Path
<1>2a. PICK r \in Seq(MoveMade) : r = Append(pending[u][e], m) /\ history[e] \o r = Append(q, m)
  <2>1. Append(pending[u][e], m) \in Seq(MoveMade)
    BY <1>1, <1>2, Followed, Zenon
  <2>2. history[e] \o Append(pending[u][e], m) = Append(q, m)
    <3>1. PICK h \in Seq(MoveMade), p \in Seq(MoveMade) : h = history[e] /\ p = pending[u][e]
      BY <1>2
    <3>2. h \o Append(p, m) = Append(h \o p, m)
      BY Followed
    <3> QED BY <1>2, <3>1, <3>2, Zenon
  <2> QED BY <2>1, <2>2
<1>3. /\ scene.port = "memory" =>
           /\ history' = [history EXCEPT ![e] = Append(history[e], m)] /\ pending' = pending
      /\ scene.port # "memory" =>
           /\ pending' = [pending EXCEPT ![u][e] = r] /\ history' = history
  BY <1>1, <1>2a DEF MoveRow
<1>4. \A v \in Units : v # u => pending[v][e] = <<>>
  <2>1. FreeFor(u, e)
    BY <1>1 DEF MoveRow, Reaches
  <2> QED BY <2>1 DEF FreeFor, Writer
<1>5. PICK w \in Seq(MoveMade) :
        /\ w = Append(q, m) /\ IsPath(w) /\ Extends(q, w)
        /\ Len(q) <= Len(w) /\ Len(w) \in Nat
  BY <1>1, <1>2, PathGrows, Zenon
<1>6. /\ \A v \in Units, f \in Entities :
           /\ Path(v, f)' = Path(v, f) \/ (Path(v, f) = q /\ Path(v, f)' = w)
      /\ \A f \in Entities : history'[f] = history[f] \/ (history[f] = q /\ history'[f] = w)
      /\ history' \in [Entities -> Seq(MoveMade)]
      /\ pending' \in [Units -> [Entities -> Seq(MoveMade)]]
      /\ RowLocks'
  <2>1. CASE scene.port = "memory"
    <3>1. \A v \in Units, f \in Entities : pending[v][f] = <<>>
      BY <1>0, <2>1 DEF RowLocks
    <3>2. q = history[e]
      BY <1>1, <1>2, <3>1, NothingFollows
    <3>3. \A f \in Entities : history'[f] = IF f = e THEN w ELSE history[f]
      BY <1>0, <1>3, <1>5, <2>1, <3>2 DEF RowTypes
    <3>4. \A v \in Units, f \in Entities : Path(v, f) = history[f] /\ Path(v, f)' = history'[f]
      <4>1. history \in [Entities -> Seq(MoveMade)] /\ history' \in [Entities -> Seq(MoveMade)] /\ pending' = pending
        BY <1>0, <1>3, <1>5, <2>1, <3>2 DEF RowTypes
      <4> QED BY <3>1, <4>1, NothingFollows DEF Path
    <3>5. history' \in [Entities -> Seq(MoveMade)]
      BY <1>0, <1>3, <1>5, <2>1, <3>2 DEF RowTypes
    <3> QED BY <1>0, <1>3, <2>1, <3>2, <3>3, <3>4, <3>5 DEF RowTypes, RowLocks
  <2>2. CASE scene.port # "memory"
    <3>1. \A v \in Units, f \in Entities :
            pending'[v][f] = IF v = u /\ f = e THEN r ELSE pending[v][f]
      BY <1>0, <1>3, <2>2 DEF RowTypes
    <3>2. pending' \in [Units -> [Entities -> Seq(MoveMade)]]
      <4>1. pending[u] \in [Entities -> Seq(MoveMade)]
        BY <1>0 DEF RowTypes
      <4>2. [pending[u] EXCEPT ![e] = r] \in [Entities -> Seq(MoveMade)]
        BY <4>1
      <4>3. pending' = [pending EXCEPT ![u] = [pending[u] EXCEPT ![e] = r]]
        BY <1>3, <2>2
      <4> QED BY <1>0, <4>2, <4>3 DEF RowTypes
    <3>4. \A v \in Units, f \in Entities :
            Path(v, f)' = IF v = u /\ f = e THEN w ELSE Path(v, f)
      BY <1>2a, <1>3, <1>5, <2>2, <3>1 DEF Path
    <3>5. RowLocks'
      BY <1>0, <1>4, <2>2, <3>1 DEF RowLocks
    <3>6. Path(u, e) = q
      BY <1>1
    <3> QED BY <1>0, <1>3, <2>2, <3>2, <3>4, <3>5, <3>6 DEF RowTypes
  <2> QED BY <2>1, <2>2
<1>7. \A v \in Units, f \in Entities :
        /\ IsPath(Path(v, f)') /\ Extends(Path(v, f), Path(v, f)') /\ Len(Path(v, f)') \in Nat
  <2> SUFFICES ASSUME NEW v \in Units, NEW f \in Entities
               PROVE  /\ IsPath(Path(v, f)') /\ Extends(Path(v, f), Path(v, f)') /\ Len(Path(v, f)') \in Nat
    OBVIOUS
  <2>1. CASE Path(v, f)' = Path(v, f)
    BY <2>1, RowsOfPath DEF RowsInv, Extends
  <2>2. CASE Path(v, f) = q /\ Path(v, f)' = w
    BY <2>2, <1>2, <1>5
  <2> QED BY <2>1, <2>2, <1>6
<1>8. /\ snapshot' \in [Units -> {<<>>} \cup [Entities -> Nat]]
      /\ \A v \in Units : snapshot'[v] # <<>> => \A f \in Entities : snapshot'[v][f] <= Len(history'[f])
  <2>1. /\ snapshot' \in [Units -> {<<>>} \cup [Entities -> Nat]]
        /\ \A v \in Units : snapshot'[v] # <<>> => \A f \in Entities : snapshot'[v][f] <= Len(history[f])
    BY <1>0, SnapshotTaken
  <2>2. \A f \in Entities : Len(history[f]) \in Nat /\ Len(history'[f]) \in Nat /\ Len(history[f]) <= Len(history'[f])
    BY <1>0, <1>2, <1>5, <1>6 DEF RowTypes
  <2>3. \A v \in Units : snapshot'[v] # <<>> => \A f \in Entities : snapshot'[v][f] \in Nat
    BY <2>1
  <2> QED BY <2>1, <2>2, <2>3
<1>9. \A v \in Units : v # u => made'[v] = made[v] /\ seen'[v] = seen[v] /\ at'[v] = at[v]
  BY <1>0 DEF RowTypes
<1>10. ASSUME NEW v \in Units, v # u PROVE Reads(v)'
  <2>1. made'[v] = made[v] /\ seen'[v] = seen[v] /\ (at'[v] = "blocked" => at[v] = "blocked" \/ Asked(v))
    BY <1>9, <1>10
  <2> QED BY <1>0, <1>7, <1>8, <2>1, ReadsStay
<1>11. Reads(u)'
  <2>1. made'[u] = made[u] + 1 /\ seen'[u] = NoRow /\ made[u] \in Nat
    BY <1>0 DEF RowTypes
  <2>2. made'[u] <= Len(scene.moves[u])
    BY <1>0, <1>1, <2>1, MoveFacts DEF Todo
  <2>3. at'[u] # "blocked"
    BY <1>0
  <2> QED BY <1>0, <1>8, <2>1, <2>2, <2>3 DEF Reads
<1>12. made' \in [Units -> Nat] /\ seen' \in [Units -> RowType \cup {NoRow}]
  BY <1>0 DEF RowTypes
<1>13. RowTypes'
  BY <1>0, <1>6, <1>8, <1>12 DEF RowTypes
<1>14. \A f \in Entities : IsPath(history'[f])
  BY <1>5, <1>6 DEF RowsInv
<1> QED BY <1>6, <1>7, <1>10, <1>11, <1>13, <1>14 DEF RowsInv

\* The end of a transaction: its moves become everybody's, or they are gone.
LEMMA RowsEnd ==
  ASSUME LocksInv, RowsInv, NEW u \in Units, NEW place \in Places \ {"blocked"},
         Leave(u, place), Publish(u) \/ UNCHANGED history
  PROVE  RowsInv'
<1>0. /\ RowTypes /\ RowLocks /\ LockTypes /\ scene' = scene /\ scene \in Scenes
      /\ pending' = [pending EXCEPT ![u] = NoMoves] /\ made' = [made EXCEPT ![u] = 0]
      /\ snapshot' = [snapshot EXCEPT ![u] = <<>>] /\ seen' = [seen EXCEPT ![u] = NoRow]
  BY DEF RowsInv, RowTypes, Leave, LocksInv
<1>1. at'[u] = place /\ \A v \in Units : v # u => (at'[v] = "blocked" => at[v] = "blocked")
  <2>1. Vacate(u, taken[u], place) /\ taken[u] \in SUBSET Keys
    BY <1>0 DEF Leave, LetGo, LockTypes
  <2>2. Vacated(u, taken[u], place)
    BY <2>1, VacateFacts
  <2> QED BY <2>2 DEF Vacated
<1>2. /\ \A v \in Units, e \in Entities : pending'[v][e] = IF v = u THEN <<>> ELSE pending[v][e]
      /\ pending' \in [Units -> [Entities -> Seq(MoveMade)]]
  BY <1>0, RowFacts DEF RowTypes
<1>3. \A e \in Entities : history[e] \in Seq(MoveMade) /\ Len(history[e]) \in Nat
  BY <1>0 DEF RowTypes
<1>4. /\ history' \in [Entities -> Seq(MoveMade)]
      /\ \A e \in Entities : history'[e] = history[e] \/ history'[e] = Path(u, e)
  <2>1. CASE UNCHANGED history
    BY <1>0, <2>1 DEF RowTypes
  <2>2. CASE Publish(u)
    <3>1. history' = [e \in Entities |-> Path(u, e)]
      BY <2>2 DEF Publish, Path
    <3> QED BY <3>1, RowsOfPath
  <2> QED BY <2>1, <2>2
<1>5. ASSUME NEW e \in Entities
      PROVE  /\ IsPath(history'[e]) /\ Extends(history[e], history'[e])
             /\ history'[e] \in Seq(MoveMade) /\ Len(history'[e]) \in Nat
  <2>1. CASE history'[e] = history[e]
    BY <1>3, <2>1 DEF Extends, RowsInv
  <2>2. CASE history'[e] = Path(u, e)
    <3>1. PICK h \in Seq(MoveMade), p \in Seq(MoveMade) : h = history[e] /\ p = pending[u][e]
      BY <1>0 DEF RowTypes
    <3>2. Path(u, e) = h \o p /\ IsPath(Path(u, e)) /\ Path(u, e) \in Seq(MoveMade) /\ Len(Path(u, e)) \in Nat
      BY <3>1, RowsOfPath DEF Path, RowsInv
    <3>3. Extends(h, h \o p)
      <4>1. PICK q \in Seq(MoveMade) : q = h \o p
        BY <3>2
      <4>2. /\ Len(q) = Len(h) + Len(p) /\ Len(h) \in Nat /\ Len(p) \in Nat
            /\ \A i \in 1 .. Len(h) : q[i] = h[i]
        BY <4>1, Concatenated
      <4>3. Extends(h, q)
        BY <4>2 DEF Extends, RowAt
      <4> QED BY <4>1, <4>3
    <3> QED BY <2>2, <3>1, <3>2, <3>3
  <2> QED BY <1>4, <2>1, <2>2
<1>6. ASSUME NEW v \in Units, NEW e \in Entities
      PROVE  /\ IsPath(Path(v, e)') /\ Len(Path(v, e)') \in Nat
             /\ v # u => Extends(Path(v, e), Path(v, e)')
  <2>1. Path(v, e)' = history'[e] \o pending'[v][e]
    BY DEF Path
  <2>2. CASE pending'[v][e] = <<>>
    <3>1. PICK h \in Seq(MoveMade) : h = history'[e]
      BY <1>5
    <3>2. Path(v, e)' = h
      BY <2>1, <2>2, <3>1, NothingFollows
    <3>3. v # u => Path(v, e) = history[e]
      <4> SUFFICES ASSUME v # u PROVE Path(v, e) = history[e]
        OBVIOUS
      <4>1. PICK k \in Seq(MoveMade) : k = history[e]
        BY <1>3
      <4>2. pending[v][e] = <<>>
        BY <1>2, <2>2
      <4> QED BY <4>1, <4>2, NothingFollows DEF Path
    <3> QED BY <1>5, <3>1, <3>2, <3>3
  <2>3. CASE pending'[v][e] # <<>>
    <3>1. v # u /\ pending'[v][e] = pending[v][e] /\ pending[u][e] = <<>>
      BY <1>0, <1>2, <2>3 DEF RowLocks
    <3>2. Path(u, e) = history[e]
      <4>1. PICK k \in Seq(MoveMade) : k = history[e]
        BY <1>3
      <4> QED BY <3>1, <4>1, NothingFollows DEF Path
    <3>3. Path(v, e)' = Path(v, e)
      BY <1>4, <2>1, <3>1, <3>2 DEF Path
    <3> QED BY <3>3, RowsOfPath DEF RowsInv, Extends
  <2> QED BY <2>2, <2>3
<1>7. /\ snapshot' \in [Units -> {<<>>} \cup [Entities -> Nat]]
      /\ \A v \in Units : snapshot'[v] # <<>> => \A e \in Entities : snapshot'[v][e] <= Len(history'[e])
  <2>1. /\ snapshot' \in [Units -> {<<>>} \cup [Entities -> Nat]]
        /\ \A v \in Units : snapshot'[v] = IF v = u THEN <<>> ELSE snapshot[v]
    BY <1>0 DEF RowTypes
  <2>2. \A v \in Units : snapshot'[v] # <<>> => \A e \in Entities :
          snapshot'[v][e] \in Nat /\ snapshot'[v][e] <= Len(history[e])
    BY <2>1 DEF RowsInv, Reads
  <2>3. \A e \in Entities : Len(history[e]) \in Nat /\ Len(history'[e]) \in Nat /\ Len(history[e]) <= Len(history'[e])
    BY <1>3, <1>5 DEF Extends
  <2> QED BY <2>1, <2>2, <2>3
<1>8. /\ made' \in [Units -> Nat] /\ seen' \in [Units -> RowType \cup {NoRow}]
      /\ made'[u] = 0 /\ seen'[u] = NoRow /\ snapshot'[u] = <<>>
      /\ \A v \in Units : v # u => made'[v] = made[v] /\ seen'[v] = seen[v]
  BY <1>0 DEF RowTypes
<1>9. ASSUME NEW v \in Units PROVE Reads(v)'
  <2>1. CASE v = u
    <3>1. Len(scene.moves[u]) \in Nat
      BY <1>0, MoveFacts
    <3> QED BY <1>0, <1>1, <1>8, <2>1, <3>1 DEF Reads
  <2>2. CASE v # u
    <3>1. made'[v] = made[v] /\ seen'[v] = seen[v] /\ (at'[v] = "blocked" => at[v] = "blocked" \/ Asked(v))
      BY <1>1, <1>8, <2>2
    <3> QED BY <1>0, <1>6, <1>7, <2>2, <3>1, ReadsStay
  <2> QED BY <2>1, <2>2
<1>10. RowLocks'
  BY <1>0, <1>2 DEF RowLocks
<1>11. RowTypes'
  BY <1>0, <1>2, <1>4, <1>7, <1>8 DEF RowTypes
<1> QED BY <1>5, <1>6, <1>9, <1>10, <1>11 DEF RowsInv

LEMMA RowsStep ==
  ASSUME LocksInv, RowsInv, NEW u \in Units, Step(u)
  PROVE  RowsInv'
<1>0. at \in [Units -> Places] /\ taken \in [Units -> SUBSET Keys]
  BY DEF LocksInv, LockTypes
<1>1. CASE Begin(u)
  <2>1. UNCHANGED <<scene, history, pending, made, seen>> /\ (snapshot' = snapshot \/ TakesSnapshot(u))
    BY <1>1 DEF Begin, Start
  <2>2. at' = [at EXCEPT ![u] = StartsAt(u)] /\ StartsAt(u) # "blocked"
    BY <1>1 DEF Begin, Start, StartsAt
  <2>3. \A v \in Units : at'[v] = "blocked" => at[v] = "blocked"
    BY <1>0, <2>2
  <2> QED BY <2>1, <2>3, RowsStay
<1>2. CASE Locking(u)
  <2>1. UNCHANGED <<scene, history, pending, made, seen, snapshot>>
    BY <1>2 DEF Locking, rowVars, LockOne, Register, ProbeLost, Timeout
  <2>2. \A v \in Units : at'[v] = "blocked" => at[v] = "blocked"
    <3>1. CASE LockOne(u) \/ Register(u)
      <4>1. PICK p \in {"granted", "waiting", "working", "locking"} : at' = [at EXCEPT ![u] = p]
        BY <3>1 DEF LockOne, Register
      <4> QED BY <1>0, <4>1
    <3>2. CASE ProbeLost(u) \/ Timeout(u)
      <4>1. PICK k \in Keys : Vacate(u, {k}, "failing")
        BY <3>2 DEF ProbeLost, Timeout
      <4>2. Vacated(u, {k}, "failing")
        BY <4>1, VacateFacts DEF Places
      <4> QED BY <4>2 DEF Vacated
    <3> QED BY <1>2, <3>1, <3>2 DEF Locking
  <2> QED BY <2>1, <2>2, RowsStay
<1>3. CASE Read(u)
  <2>1. UNCHANGED <<scene, history, pending, made, at>> /\ TakesSnapshot(u) /\ Todo(u) /\ at[u] = "working"
    BY <1>3 DEF Read
  <2>2. seen' = [seen EXCEPT ![u] = Visible(u, Now(u).id)]
    BY <1>3 DEF Read
  <2> QED BY <2>1, <2>2, RowsStay
<1>4. CASE Block(u)
  <2>1. UNCHANGED <<scene, history, pending, made, seen>> /\ TakesSnapshot(u) /\ Asked(u)
    BY <1>4 DEF Block
  <2>2. \A v \in Units : at'[v] = "blocked" => at[v] = "blocked" \/ Asked(v)
    BY <1>0, <1>4, <2>1 DEF Block
  <2> QED BY <2>1, <2>2, RowsStay
<1>5. CASE RefuseMove(u) \/ MissRow(u) \/ SerializationFails(u) \/ EndWait(u)
  <2>1. /\ UNCHANGED <<scene, history, pending, made, seen>> /\ (snapshot' = snapshot \/ TakesSnapshot(u))
        /\ at' = [at EXCEPT ![u] = "failing"]
    BY <1>5 DEF RefuseMove, MissRow, SerializationFails, EndWait, Throws
  <2>2. \A v \in Units : at'[v] = "blocked" => at[v] = "blocked"
    BY <1>0, <2>1
  <2> QED BY <2>1, <2>2, RowsStay
<1>6. CASE MoveRow(u)
  BY <1>6, RowsMove
<1>7. CASE Commit(u) \/ LoseConnection(u) \/ Settle(u)
  <2>1. PICK place \in {"idle", "failing", "settled"} : Leave(u, place)
    BY <1>7 DEF Commit, LoseConnection, Settle
  <2>2. Publish(u) \/ UNCHANGED history
    BY <1>7 DEF Commit, LoseConnection, Settle
  <2>3. place \in Places \ {"blocked"}
    BY DEF Places
  <2> QED BY <2>1, <2>2, <2>3, RowsEnd
<1> QED BY <1>1, <1>2, <1>3, <1>4, <1>5, <1>6, <1>7 DEF Step

LEMMA RowsInvariant == Spec => []RowsInv
<1>1. LocksInv /\ RowsInv /\ [Next]_vars => RowsInv'
  <2> SUFFICES ASSUME LocksInv, RowsInv, [Next]_vars PROVE RowsInv'
    OBVIOUS
  <2>1. CASE UNCHANGED vars
    BY <2>1 DEF vars, RowsInv, RowTypes, RowLocks, Reads, Path, Todo, Now, Illegal, Sources
  <2>2. ASSUME NEW u \in Units, Step(u) PROVE RowsInv'
    BY <2>2, RowsStep
  <2> QED BY <2>1, <2>2 DEF Next, AllSettled
<1> QED BY <1>1, InitRows, LocksInvariant, PTL DEF Spec

\* "A lost race is NEVER a silent success" (transition.ts): whatever units meet, in whichever session,
\* with or without locks, the moves of an entity form one path of the machine from its creation, each
\* decided on the row it replaced.
THEOREM LostRacesAreErrors == Spec => []NoMoveIsLost
<1>1. RowsInv => NoMoveIsLost
  <2> SUFFICES ASSUME RowsInv, NEW e \in Entities, NEW i \in DOMAIN history[e]
               PROVE  /\ history[e][i].before = IF i = 1 THEN Created ELSE history[e][i - 1].after
                      /\ Legal(history[e][i])
    BY DEF NoMoveIsLost
  <2>1. i \in 1 .. Len(history[e]) /\ IsPath(history[e])
    BY DEF RowsInv, RowTypes
  <2> QED BY <2>1 DEF IsPath, RowAt
<1> QED BY <1>1, RowsInvariant, PTL

-----------------------------------------------------------------------------
(* How many moves of a unit are committed. *)

Errors ==
  {None, "usage", "illegal", "lock-timeout", "55P03", "40P01", "40001", "stale-state",
   "unknown-outcome", "08006"}

ErrorTypes == error \in [Units -> Errors]

LEMMA ErrorsKnown == Spec => [](ErrorTypes)
<1>1. Init => ErrorTypes
  BY DEF Init, LockInit, Errors, ErrorTypes
<1>2. ErrorTypes /\ [Next]_vars => ErrorTypes'
  <2> SUFFICES ASSUME ErrorTypes, [Next]_vars PROVE ErrorTypes'
    OBVIOUS
  <2>1. CASE UNCHANGED vars
    BY <2>1 DEF vars, ErrorTypes
  <2>2. ASSUME NEW u \in Units, Step(u) PROVE ErrorTypes'
    <3>1. error' = error \/ \E e \in Errors : error' = [error EXCEPT ![u] = e]
      <4>1. CASE Begin(u)
        BY <4>1 DEF Begin, Start, Errors
      <4>2. CASE Locking(u)
        BY <4>2 DEF Locking, LockOne, Register, ProbeLost, Timeout, Errors
      <4>3. CASE Read(u) \/ Block(u) \/ Commit(u) \/ Settle(u)
        BY <4>3 DEF Read, Block, Commit, Settle
      <4>4. CASE RefuseMove(u) \/ MissRow(u) \/ SerializationFails(u) \/ EndWait(u)
        BY <4>4 DEF RefuseMove, MissRow, SerializationFails, EndWait, Throws, Errors
      <4>5. CASE MoveRow(u) \/ LoseConnection(u)
        BY <4>5 DEF MoveRow, LoseConnection, Errors
      <4> QED BY <2>2, <4>1, <4>2, <4>3, <4>4, <4>5 DEF Step
    <3> QED BY <3>1 DEF ErrorTypes
  <2> QED BY <2>1, <2>2 DEF Next, AllSettled
<1> QED BY <1>1, <1>2, PTL DEF Spec

\* Which of the first n moves of a unit are of an entity.
OfEntity(u, n, e) == {i \in 1 .. n : scene.moves[u][i].id = e}

\* The transaction of a unit has the moves the unit has made.
MovesInHand(u) ==
  \A e \in Entities :
    /\ \A i \in 1 .. Len(pending[u][e]) : pending[u][e][i].unit = u
    /\ Len(pending[u][e]) = Cardinality(OfEntity(u, made[u], e))

Untouched(u) == \A e \in Entities : MovesOf(u, e) = {}
Whole(u) ==
  \A e \in Entities : Cardinality(MovesOf(u, e)) = Cardinality(OfEntity(u, Len(scene.moves[u]), e))

\* What a unit has committed, by where it is and what it threw: only a COMMIT that lost its connection
\* leaves it open, and its error is not retried.
Outcome(u) ==
  /\ at[u] \in {"locking", "waiting", "granted", "working", "blocked"} => error[u] = None
  /\ at[u] = "failing" => error[u] # None
  /\ at[u] = "settled" /\ error[u] = None => Whole(u)
  /\ \/ Untouched(u)
     \/ /\ Whole(u)
        /\ \/ at[u] = "settled" /\ error[u] \in {None, "08006"}
           \/ at[u] = "failing" /\ error[u] = "08006"

CountsInv == scene.port = "postgres" => \A u \in Units : MovesInHand(u) /\ Outcome(u)

LEMMA OfEntityFacts ==
  ASSUME NEW u, NEW n \in Nat, NEW e
  PROVE  /\ IsFiniteSet(OfEntity(u, n, e))
         /\ OfEntity(u, 0, e) = {} /\ Cardinality(OfEntity(u, 0, e)) = 0
         /\ Cardinality(OfEntity(u, n + 1, e)) =
              IF scene.moves[u][n + 1].id = e
              THEN Cardinality(OfEntity(u, n, e)) + 1 ELSE Cardinality(OfEntity(u, n, e))
<1>1. IsFiniteSet(1 .. n) /\ OfEntity(u, n, e) \in SUBSET (1 .. n)
  BY FS_Interval DEF OfEntity
<1>2. IsFiniteSet(OfEntity(u, n, e))
  BY <1>1, FS_Subset
<1>3. OfEntity(u, 0, e) = {}
  BY DEF OfEntity
<1>4. CASE scene.moves[u][n + 1].id = e
  <2>1. OfEntity(u, n + 1, e) = OfEntity(u, n, e) \cup {n + 1}
    BY <1>4 DEF OfEntity
  <2>2. n + 1 \notin OfEntity(u, n, e)
    BY DEF OfEntity
  <2> QED BY <1>2, <1>3, <1>4, <2>1, <2>2, FS_AddElement, FS_EmptySet
<1>5. CASE scene.moves[u][n + 1].id # e
  <2>1. OfEntity(u, n + 1, e) = OfEntity(u, n, e)
    BY <1>5 DEF OfEntity
  <2> QED BY <1>2, <1>3, <1>5, <2>1, FS_EmptySet
<1> QED BY <1>4, <1>5

\* Names for what the next lemma is about, which the provers need not expand when they cite it.
MadeBy(path, u) == {i \in DOMAIN path : path[i].unit = u}
Histories == Seq(MoveMade)
Joined(path, more) == path \o more
OnlyBy(path, u) == \A i \in 1 .. Len(path) : path[i].unit = u

\* The moves of each unit in a history to which those of u are appended.
LEMMA MovesAppended ==
  ASSUME NEW h \in Histories, NEW p \in Histories, NEW q \in Histories, NEW u,
         q = Joined(h, p), OnlyBy(p, u)
  PROVE  /\ MadeBy(q, u) = MadeBy(h, u) \cup (Len(h) + 1 .. Len(h) + Len(p))
         /\ \A v : v # u => MadeBy(q, v) = MadeBy(h, v)
<1>2. /\ Len(q) = Len(h) + Len(p) /\ Len(h) \in Nat /\ Len(p) \in Nat
      /\ DOMAIN q = 1 .. Len(q) /\ DOMAIN h = 1 .. Len(h)
      /\ \A i \in 1 .. Len(h) : q[i] = h[i]
      /\ \A i \in 1 .. Len(p) : q[Len(h) + i] = p[i]
  BY Concatenated DEF Joined, Histories
<1>3. ASSUME NEW i \in 1 .. Len(q)
      PROVE  i \in 1 .. Len(h) \/ (i \in Len(h) + 1 .. Len(h) + Len(p) /\ q[i].unit = u)
  <2>1. CASE i \notin 1 .. Len(h)
    <3>1. i - Len(h) \in 1 .. Len(p) /\ i = Len(h) + (i - Len(h))
      BY <1>2, <2>1
    <3>2. q[i] = p[i - Len(h)]
      BY <1>2, <3>1
    <3> QED BY <1>2, <3>1, <3>2 DEF OnlyBy
  <2> QED BY <2>1
<1>4. \A i \in Len(h) + 1 .. Len(h) + Len(p) : i \in 1 .. Len(q) /\ i \notin 1 .. Len(h)
  BY <1>2
<1>5. \A i \in 1 .. Len(h) : i \in 1 .. Len(q)
  BY <1>2
<1>6. MadeBy(q, u) = MadeBy(h, u) \cup (Len(h) + 1 .. Len(h) + Len(p))
  BY <1>2, <1>3, <1>4, <1>5 DEF MadeBy
<1>7. \A v : v # u => MadeBy(q, v) = MadeBy(h, v)
  BY <1>2, <1>3, <1>4, <1>5 DEF MadeBy
<1> QED BY <1>6, <1>7

\* A unit keeps what it has, in hand and committed, while another one takes its step.
LEMMA CountsStay ==
  ASSUME NEW v \in Units, scene' = scene,
         MovesInHand(v), Outcome(v), pending'[v] = pending[v], made'[v] = made[v],
         \A e \in Entities : MovesOf(v, e)' = MovesOf(v, e)
  PROVE  /\ MovesInHand(v)'
         /\ Untouched(v)' <=> Untouched(v)
         /\ Whole(v)' <=> Whole(v)
         /\ error'[v] = error[v] /\ (at'[v] = at[v] \/ (at[v] = "waiting" /\ at'[v] = "granted")) =>
              Outcome(v)'
<1>1. \A n, e : OfEntity(v, n, e)' = OfEntity(v, n, e)
  BY DEF OfEntity
<1>2. MovesInHand(v)'
  BY <1>1 DEF MovesInHand
<1>3. (Untouched(v)' <=> Untouched(v)) /\ (Whole(v)' <=> Whole(v))
  BY <1>1 DEF Untouched, Whole
<1> QED BY <1>2, <1>3 DEF Outcome

LEMMA InitCounts == Init => CountsInv
<1> SUFFICES ASSUME Init, NEW u \in Units PROVE MovesInHand(u) /\ Outcome(u)
  BY DEF CountsInv
<1> USE DEF Init, LockInit
<1>1. \A e \in Entities : history[e] = <<>> /\ pending[u][e] = <<>> /\ made[u] = 0
  BY RowFacts
<1>2. MovesInHand(u)
  <2>1. \A e \in Entities : Cardinality(OfEntity(u, 0, e)) = 0
    BY OfEntityFacts
  <2> QED BY <1>1, <2>1 DEF MovesInHand
<1>3. Untouched(u)
  BY <1>1 DEF Untouched, MovesOf
<1> QED BY <1>2, <1>3 DEF Outcome

\* A lost connection has no kind, so that nothing retries it.
LEMMA LostIsNoKind == Classify("08006") \notin Kinds
<1> DEFINE e == [code |-> "08006", driverError |-> None, meta |-> None]
           chain == <<e>>
<1>1. KindOf(e) = None
  BY DEF KindOf, OrElse, KindOfCode, None
<1>2. DOMAIN chain = {1} /\ chain[1] = e
  OBVIOUS
<1>3. ClassifyPostgresError(chain) = None
  BY <1>1, <1>2 DEF ClassifyPostgresError
<1> QED BY <1>3 DEF Classify, Kinds, None

\* A step that commits nothing and moves nothing.
LEMMA CountsSteady ==
  ASSUME CountsInv, UNCHANGED <<scene, history, pending, made>>, NEW u \in Units,
         \A v \in Units \ {u} :
           error'[v] = error[v] /\ (at'[v] = at[v] \/ (at[v] = "waiting" /\ at'[v] = "granted")),
         at[u] # "settled", at[u] = "failing" => FALSE,
         \/ at'[u] = "failing" /\ error'[u] # None
         \/ at'[u] \in {"locking", "waiting", "granted", "working", "blocked"} /\ error'[u] = None
  PROVE  CountsInv'
<1> SUFFICES ASSUME scene.port = "postgres", NEW v \in Units PROVE MovesInHand(v)' /\ Outcome(v)'
  BY DEF CountsInv
<1>1. MovesInHand(v) /\ Outcome(v) /\ Outcome(u) /\ MovesInHand(u)
  BY DEF CountsInv
<1>2. \A w \in Units : pending'[w] = pending[w] /\ made'[w] = made[w] /\ \A e \in Entities : MovesOf(w, e)' = MovesOf(w, e)
  BY DEF MovesOf
<1>3. CASE v # u
  BY <1>1, <1>2, <1>3, CountsStay
<1>4. CASE v = u
  <2>1. MovesInHand(u)' /\ (Untouched(u)' <=> Untouched(u))
    BY <1>1, <1>2, CountsStay
  <2>2. Untouched(u)
    BY <1>1 DEF Outcome
  <2> QED BY <1>4, <2>1, <2>2 DEF Outcome
<1> QED BY <1>3, <1>4

LEMMA CountsMove ==
  ASSUME LocksInv, RowsInv, CountsInv, ErrorTypes, NEW u \in Units, MoveRow(u)
  PROVE  CountsInv'
<1> SUFFICES ASSUME scene.port = "postgres", NEW v \in Units PROVE MovesInHand(v)' /\ Outcome(v)'
  BY DEF CountsInv, MoveRow
<1>0. /\ RowTypes /\ scene' = scene /\ scene \in Scenes /\ at \in [Units -> Places] /\ history' = history
      /\ made' = [made EXCEPT ![u] = @ + 1]
      /\ at' = [at EXCEPT ![u] = IF scene.opaque THEN "failing" ELSE "working"]
      /\ error' = [error EXCEPT ![u] = IF scene.opaque THEN "unknown-outcome" ELSE None]
  BY DEF RowsInv, RowTypes, MoveRow, LocksInv, LockTypes
<1>1. PICK e \in Entities, m \in MoveMade : e = Now(u).id /\ m = Moved(u) /\ m.unit = u
  BY MoveContinues
<1>2. pending' = [pending EXCEPT ![u][e] = Append(pending[u][e], m)]
  BY <1>1 DEF MoveRow
<1>3. MovesInHand(v) /\ Outcome(v) /\ Outcome(u) /\ MovesInHand(u)
  BY DEF CountsInv
<1>4. \A w \in Units, f \in Entities : MovesOf(w, f)' = MovesOf(w, f)
  BY <1>0 DEF MovesOf
<1>5. CASE v # u
  <2>1. pending'[v] = pending[v] /\ made'[v] = made[v] /\ at'[v] = at[v]
    BY <1>0, <1>2, <1>5 DEF RowTypes
  <2>2. error'[v] = error[v]
    BY <1>0, <1>5
  <2> QED BY <1>0, <1>3, <1>4, <2>1, <2>2, CountsStay
<1>6. CASE v = u
  <2>1. \A f, n : OfEntity(u, n, f)' = OfEntity(u, n, f)
    BY <1>0 DEF OfEntity
  <2>2. made'[u] = made[u] + 1 /\ made[u] \in Nat
    BY <1>0 DEF RowTypes
  <2>3. ASSUME NEW f \in Entities
        PROVE  /\ \A i \in 1 .. Len(pending'[u][f]) : pending'[u][f][i].unit = u
               /\ Len(pending'[u][f]) = Cardinality(OfEntity(u, made[u] + 1, f))
    <3>1. PICK p \in Seq(MoveMade) : p = pending[u][f]
      BY <1>0 DEF RowTypes
    <3>2. /\ \A i \in 1 .. Len(p) : p[i].unit = u
          /\ Len(p) = Cardinality(OfEntity(u, made[u], f))
      BY <1>3, <3>1 DEF MovesInHand
    <3>3. Cardinality(OfEntity(u, made[u] + 1, f)) = IF f = e THEN Len(p) + 1 ELSE Len(p)
      <4>1. PICK n \in Nat : n = made[u]
        BY <2>2
      <4>2. e = scene.moves[u][n + 1].id
        BY <1>1, <4>1 DEF Now
      <4>3. Cardinality(OfEntity(u, n + 1, f)) =
              IF scene.moves[u][n + 1].id = f
              THEN Cardinality(OfEntity(u, n, f)) + 1 ELSE Cardinality(OfEntity(u, n, f))
        BY OfEntityFacts
      <4>4. Len(p) = Cardinality(OfEntity(u, n, f))
        BY <3>2, <4>1
      <4>5. Cardinality(OfEntity(u, n + 1, f)) = IF f = e THEN Len(p) + 1 ELSE Len(p)
        BY ONLY <4>2, <4>3, <4>4
      <4> QED BY ONLY <4>1, <4>5
    <3>4. CASE f = e
      <4>1. pending'[u][f] = Append(p, m)
        BY <1>0, <1>2, <3>1, <3>4 DEF RowTypes
      <4> QED BY <1>1, <3>2, <3>3, <3>4, <4>1
    <3>5. CASE f # e
      <4>1. pending'[u][f] = p
        BY <1>0, <1>2, <3>1, <3>5 DEF RowTypes
      <4> QED BY <3>2, <3>3, <3>5, <4>1
    <3> QED BY <3>4, <3>5
  <2>4. MovesInHand(u)'
    BY <2>1, <2>2, <2>3 DEF MovesInHand
  <2>5. Untouched(u)'
    <3>1. at[u] \in {"working", "blocked"}
      BY DEF MoveRow, Reaches, Asked, Asks
    <3> QED BY <1>3, <1>4, <3>1 DEF Outcome, Untouched
  <2>6. (at'[u] = "failing" /\ error'[u] # None) \/ (at'[u] = "working" /\ error'[u] = None)
    BY <1>0, MovesAssumption DEF None, ErrorTypes
  <2> QED BY <1>6, <2>4, <2>5, <2>6 DEF Outcome
<1> QED BY <1>5, <1>6

\* What the end of a transaction does to the moves that are committed.
LEMMA CountsEnd ==
  ASSUME LocksInv, RowsInv, CountsInv, ErrorTypes, scene.port = "postgres",
         NEW u \in Units, NEW place \in Places, Leave(u, place), Publish(u) \/ UNCHANGED history
  PROVE  /\ MovesInHand(u)' /\ at'[u] = place
         /\ UNCHANGED history => (Untouched(u)' <=> Untouched(u)) /\ (Whole(u)' <=> Whole(u))
         /\ Publish(u) /\ Untouched(u) /\ made[u] = Len(scene.moves[u]) => Whole(u)'
         /\ \A v \in Units \ {u} : error'[v] = error[v] => MovesInHand(v)' /\ Outcome(v)'
<1>0. /\ RowTypes /\ LockTypes /\ scene' = scene /\ scene \in Scenes
      /\ pending' = [pending EXCEPT ![u] = NoMoves] /\ made' = [made EXCEPT ![u] = 0]
      /\ \A v \in Units : MovesInHand(v) /\ Outcome(v)
  BY DEF RowsInv, RowTypes, Leave, LocksInv, CountsInv
<1>1. /\ at'[u] = place
      /\ \A v \in Units \ {u} : at'[v] = at[v] \/ (at[v] = "waiting" /\ at'[v] = "granted")
  <2>1. Vacate(u, taken[u], place) /\ taken[u] \in SUBSET Keys
    BY <1>0 DEF Leave, LetGo, LockTypes
  <2>2. Vacated(u, taken[u], place)
    BY <2>1, VacateFacts
  <2> QED BY <2>2 DEF Vacated
<1>2. \A v \in Units : pending'[v] = (IF v = u THEN NoMoves ELSE pending[v]) /\ made'[v] = (IF v = u THEN 0 ELSE made[v])
  BY <1>0 DEF RowTypes
<1>3. \A v, n, e : OfEntity(v, n, e)' = OfEntity(v, n, e)
  BY <1>0 DEF OfEntity
<1>4. MovesInHand(u)'
  <2>1. \A e \in Entities : Cardinality(OfEntity(u, 0, e)) = 0 /\ pending'[u][e] = <<>> /\ made'[u] = 0
    BY <1>2, OfEntityFacts, RowFacts
  <2> QED BY <1>3, <2>1 DEF MovesInHand
<1>5. UNCHANGED history => \A v \in Units, e \in Entities : MovesOf(v, e)' = MovesOf(v, e)
  BY DEF MovesOf
<1>6. ASSUME Publish(u), NEW e \in Entities
      PROVE  /\ MovesOf(u, e)' = MovesOf(u, e) \cup (Len(history[e]) + 1 .. Len(history[e]) + Len(pending[u][e]))
             /\ \A v \in Units \ {u} : MovesOf(v, e)' = MovesOf(v, e)
             /\ Len(history[e]) \in Nat /\ Len(pending[u][e]) \in Nat
  <2>1. PICK h \in Seq(MoveMade), p \in Seq(MoveMade) : h = history[e] /\ p = pending[u][e]
    BY <1>0 DEF RowTypes
  <2>2. PICK q \in Seq(MoveMade) : q = Joined(h, p) /\ q = history'[e]
    BY <1>6, <2>1, Concatenated DEF Publish, Joined
  <2>3. OnlyBy(p, u)
    BY <1>0, <2>1 DEF MovesInHand, OnlyBy
  <2>4. /\ MadeBy(q, u) = MadeBy(h, u) \cup (Len(h) + 1 .. Len(h) + Len(p))
        /\ \A v : v # u => MadeBy(q, v) = MadeBy(h, v)
    <3>1. h \in Histories /\ p \in Histories /\ q \in Histories /\ q = Joined(h, p)
      BY <2>1, <2>2 DEF Histories
    <3> QED BY ONLY <2>3, <3>1, MovesAppended
  <2>5. ASSUME NEW v
        PROVE  /\ MovesOf(v, e) = MadeBy(h, v)
               /\ MovesOf(v, e)' = MadeBy(q, v)
    BY <2>1, <2>2 DEF MovesOf, MadeBy
  <2>6. MovesOf(u, e)' = MovesOf(u, e) \cup (Len(h) + 1 .. Len(h) + Len(p))
    BY <2>4, <2>5
  <2>7. \A v \in Units \ {u} : MovesOf(v, e)' = MovesOf(v, e)
    BY <2>4, <2>5
  <2>8. Len(h) \in Nat /\ Len(p) \in Nat
    OBVIOUS
  <2> QED BY <2>1, <2>6, <2>7, <2>8
<1>7. ASSUME Publish(u), Untouched(u), made[u] = Len(scene.moves[u]) PROVE Whole(u)'
  <2> SUFFICES ASSUME NEW e \in Entities
               PROVE  Cardinality(MovesOf(u, e)') = Cardinality(OfEntity(u, made[u], e))
    BY <1>0, <1>3, <1>7 DEF Whole
  <2>1. PICK a \in Nat, b \in Nat : a = Len(history[e]) /\ b = Len(pending[u][e])
    BY <1>6, <1>7
  <2>2. MovesOf(u, e)' = a + 1 .. a + b
    BY <1>6, <1>7, <2>1 DEF Untouched
  <2>3. Cardinality(a + 1 .. a + b) = b
    BY FS_Interval
  <2>4. b = Cardinality(OfEntity(u, made[u], e))
    BY <1>0, <2>1 DEF MovesInHand
  <2> QED BY <2>2, <2>3, <2>4
<1>8. UNCHANGED history => (Untouched(u)' <=> Untouched(u)) /\ (Whole(u)' <=> Whole(u))
  BY <1>0, <1>3, <1>5 DEF Untouched, Whole
<1>9. ASSUME NEW v \in Units \ {u}, error'[v] = error[v] PROVE MovesInHand(v)' /\ Outcome(v)'
  <2>1. \A e \in Entities : MovesOf(v, e)' = MovesOf(v, e)
    BY <1>5, <1>6
  <2>2. pending'[v] = pending[v] /\ made'[v] = made[v]
    BY <1>2
  <2> QED BY <1>0, <1>1, <1>9, <2>1, <2>2, CountsStay
<1> QED BY <1>1, <1>4, <1>7, <1>8, <1>9

LEMMA CountsStep ==
  ASSUME LocksInv, RowsInv, CountsInv, ErrorTypes, NEW u \in Units, Step(u)
  PROVE  CountsInv'
<1>0. /\ at \in [Units -> Places] /\ taken \in [Units -> SUBSET Keys] /\ error \in [Units -> Errors]
      /\ scene.port = "postgres" => MovesInHand(u) /\ Outcome(u)
  BY DEF LocksInv, LockTypes, CountsInv, ErrorTypes
<1> SUFFICES ASSUME scene.port = "postgres" PROVE CountsInv'
  <2>1. scene' = scene
    BY DEF Step, Begin, Start, Locking, LockOne, Register, ProbeLost, Timeout, Read, RefuseMove, Block,
           MissRow, SerializationFails, MoveRow, EndWait, Throws, Commit, LoseConnection, Settle, Leave
  <2> QED BY <2>1 DEF CountsInv
<1>1. CASE Begin(u)
  <2>1. UNCHANGED <<scene, history, pending, made>> /\ at[u] = "idle"
    BY <1>1 DEF Begin, Start
  <2>2. /\ at' = [at EXCEPT ![u] = StartsAt(u)]
        /\ error' = [error EXCEPT ![u] = IF StartsAt(u) = "failing" THEN "usage" ELSE None]
        /\ StartsAt(u) \in {"working", "failing", "locking"}
    BY <1>1 DEF Begin, Start, StartsAt
  <2>3. \A v \in Units \ {u} : error'[v] = error[v] /\ at'[v] = at[v]
    BY <1>0, <2>2
  <2>4. at'[u] = StartsAt(u) /\ error'[u] = IF StartsAt(u) = "failing" THEN "usage" ELSE None
    BY <1>0, <2>2
  <2>5. at'[u] = "failing" => error'[u] # None
    BY <2>4 DEF None
  <2>6. at'[u] # "failing" => error'[u] = None /\ at'[u] \in {"working", "locking"}
    BY <2>2, <2>4
  <2> QED BY <2>1, <2>3, <2>5, <2>6, CountsSteady
<1>2. CASE Locking(u)
  <2>1. UNCHANGED <<scene, history, pending, made>> /\ at[u] \in {"locking", "granted", "waiting"}
    BY <1>2 DEF Locking, rowVars, LockOne, Register, ProbeLost, Timeout
  <2>2. CASE LockOne(u) \/ Register(u)
    <3>1. /\ \E p \in {"granted", "waiting", "working", "locking"} : at' = [at EXCEPT ![u] = p]
          /\ error' = error
      BY <2>2 DEF LockOne, Register
    <3>2. \A v \in Units \ {u} : at'[v] = at[v]
      BY <1>0, <3>1
    <3>3. at'[u] \in {"granted", "waiting", "working", "locking"}
      BY <1>0, <3>1
    <3>4. error'[u] = None
      BY <1>0, <2>1, <3>1 DEF Outcome
    <3> QED BY <2>1, <3>1, <3>2, <3>3, <3>4, CountsSteady
  <2>3. CASE ProbeLost(u) \/ Timeout(u)
    <3>1. PICK k \in Keys, e \in Errors \ {None} :
            Vacate(u, {k}, "failing") /\ error' = [error EXCEPT ![u] = e]
      BY <2>3 DEF ProbeLost, Timeout, Errors, None
    <3>2. Vacated(u, {k}, "failing")
      BY <3>1, VacateFacts DEF Places
    <3>3. error'[u] # None /\ \A v \in Units \ {u} : error'[v] = error[v]
      BY <1>0, <3>1
    <3> QED BY <2>1, <3>2, <3>3, CountsSteady DEF Vacated
  <2> QED BY <1>2, <2>2, <2>3 DEF Locking
<1>3. CASE Read(u) \/ Block(u)
  <2>1. UNCHANGED <<scene, history, pending, made, error>> /\ at[u] = "working"
    BY <1>3 DEF Read, Block, Asked, Asks
  <2>2. \E p \in {"working", "blocked"} : at' = [at EXCEPT ![u] = p]
    BY <1>0, <1>3, <2>1 DEF Read, Block
  <2>3. at'[u] \in {"working", "blocked"} /\ \A v \in Units \ {u} : at'[v] = at[v]
    BY <1>0, <2>2
  <2>4. error'[u] = None
    BY <1>0, <2>1 DEF Outcome
  <2> QED BY <2>1, <2>3, <2>4, CountsSteady
<1>4. CASE RefuseMove(u) \/ MissRow(u) \/ SerializationFails(u) \/ EndWait(u)
  <2>1. at[u] \in {"working", "blocked"}
    BY <1>4 DEF RefuseMove, MissRow, SerializationFails, EndWait, Reaches, Asked, Asks
  <2>2. PICK e \in Errors \ {None} : Throws(u, e)
    BY <1>4 DEF RefuseMove, MissRow, SerializationFails, EndWait, Errors, None
  <2>3. /\ UNCHANGED <<scene, history, pending, made>>
        /\ at' = [at EXCEPT ![u] = "failing"] /\ error' = [error EXCEPT ![u] = e]
    BY <2>2 DEF Throws
  <2>4. /\ at'[u] = "failing" /\ error'[u] # None
        /\ \A v \in Units \ {u} : at'[v] = at[v] /\ error'[v] = error[v]
    BY <1>0, <2>2, <2>3
  <2> QED BY <2>1, <2>3, <2>4, CountsSteady
<1>5. CASE MoveRow(u)
  BY <1>5, CountsMove
<1>6. CASE Commit(u)
  <2>1. /\ at[u] = "working" /\ ~Todo(u) /\ Publish(u) /\ Leave(u, "settled") /\ error' = error
    BY <1>6 DEF Commit, Done
  <2>2. made[u] = Len(scene.moves[u])
    BY <2>1, MoveFacts DEF Todo, RowsInv, RowTypes, Reads
  <2>3. error[u] = None /\ Untouched(u)
    BY <1>0, <2>1 DEF Outcome
  <2>4. /\ MovesInHand(u)' /\ at'[u] = "settled" /\ Whole(u)'
        /\ \A v \in Units \ {u} : MovesInHand(v)' /\ Outcome(v)'
    BY <2>1, <2>2, <2>3, CountsEnd DEF Places
  <2>5. Outcome(u)'
    BY <2>1, <2>3, <2>4 DEF Outcome
  <2> QED BY <2>4, <2>5 DEF CountsInv
<1>7. CASE LoseConnection(u)
  <2>1. /\ at[u] = "working" /\ ~Todo(u) /\ (Publish(u) \/ UNCHANGED history) /\ Leave(u, "failing")
        /\ error' = [error EXCEPT ![u] = "08006"]
    BY <1>7 DEF LoseConnection, Done
  <2>2. made[u] = Len(scene.moves[u])
    BY <2>1, MoveFacts DEF Todo, RowsInv, RowTypes, Reads
  <2>3. Untouched(u) /\ error'[u] = "08006" /\ \A v \in Units \ {u} : error'[v] = error[v]
    BY <1>0, <2>1 DEF Outcome
  <2>4. /\ MovesInHand(u)' /\ at'[u] = "failing" /\ (Whole(u)' \/ Untouched(u)')
        /\ \A v \in Units \ {u} : MovesInHand(v)' /\ Outcome(v)'
    BY <2>1, <2>2, <2>3, CountsEnd DEF Places
  <2>5. Outcome(u)'
    BY <2>3, <2>4 DEF Outcome, None
  <2> QED BY <2>4, <2>5 DEF CountsInv
<1>8. CASE Settle(u)
  <2> DEFINE place == IF Retries(u) THEN "idle" ELSE "settled"
  <2>1. at[u] = "failing" /\ UNCHANGED history /\ Leave(u, place) /\ error' = error
    BY <1>8 DEF Settle
  <2>2. error[u] # None /\ (Untouched(u) \/ (Whole(u) /\ error[u] = "08006"))
    BY <1>0, <2>1 DEF Outcome
  <2>3. Retries(u) => Untouched(u)
    <3>1. scene.retried \subseteq Kinds
      BY MovesAssumption DEF RowsInv, RowTypes
    <3> QED BY <2>2, <3>1, LostIsNoKind DEF Retries
  <2>4. place \in Places /\ (place = "idle" => Untouched(u)) /\ place \in {"idle", "settled"}
    BY <2>3 DEF Places
  <2> HIDE DEF place
  <2>5. /\ MovesInHand(u)' /\ at'[u] = place /\ (Whole(u)' <=> Whole(u)) /\ (Untouched(u)' <=> Untouched(u))
        /\ \A v \in Units \ {u} : MovesInHand(v)' /\ Outcome(v)'
    BY <2>1, <2>4, CountsEnd
  <2>6. Outcome(u)'
    BY <2>1, <2>2, <2>4, <2>5 DEF Outcome
  <2> QED BY <2>5, <2>6 DEF CountsInv
<1> QED BY <1>1, <1>2, <1>3, <1>4, <1>5, <1>6, <1>7, <1>8 DEF Step

LEMMA CountsInvariant == Spec => []CountsInv
<1>1. LocksInv /\ RowsInv /\ ErrorTypes /\ CountsInv /\ [Next]_vars => CountsInv'
  <2> SUFFICES ASSUME LocksInv, RowsInv, ErrorTypes, CountsInv, [Next]_vars PROVE CountsInv'
    OBVIOUS
  <2>1. CASE UNCHANGED vars
    BY <2>1 DEF vars, CountsInv, MovesInHand, Outcome, Untouched, Whole, MovesOf, OfEntity
  <2>2. ASSUME NEW u \in Units, Step(u) PROVE CountsInv'
    BY <2>2, CountsStep
  <2> QED BY <2>1, <2>2 DEF Next, AllSettled
<1> QED BY <1>1, InitCounts, LocksInvariant, RowsInvariant, ErrorsKnown, PTL DEF Spec

\* A unit of work moves all of its entities or none of them, and it moves them once, whatever is retried
\* and whichever units, locks and sessions it meets: all of them when it succeeded, none when its
\* failure has a kind or is the program's own, one or the other when the connection was lost at COMMIT.
THEOREM UnitsAreAtomic == Spec => []UnitsMoveOnce
<1>1. RowsInv /\ CountsInv => UnitsMoveOnce
  <2> SUFFICES ASSUME RowsInv, CountsInv, scene.port = "postgres", NEW u \in Units
               PROVE  /\ Count(u) \in {NothingOf, AskedOf(u)}
                      /\ at[u] = "settled" /\ error[u] = None => Count(u) = AskedOf(u)
                      /\ at[u] = "settled" /\ error[u] \notin {None, "08006"} => Count(u) = NothingOf
    BY DEF UnitsMoveOnce
  <2>1. Outcome(u)
    BY DEF CountsInv
  <2>2. Untouched(u) => Count(u) = NothingOf
    BY FS_EmptySet DEF Untouched, Count, NothingOf
  <2>3. Whole(u) => Count(u) = AskedOf(u)
    <3>1. DOMAIN scene.moves[u] = 1 .. Len(scene.moves[u])
      BY MoveFacts DEF RowsInv, RowTypes
    <3> QED BY <3>1 DEF Whole, Count, AskedOf, OfEntity
  <2> QED BY <2>1, <2>2, <2>3 DEF Outcome
<1> QED BY <1>1, RowsInvariant, CountsInvariant, PTL
=============================================================================
