------------------------------ MODULE LockPort ------------------------------
(***************************************************************************)
(* The two lock ports under the units of work that use them: the           *)
(* in-process MemoryLockPort (src/testing/memory-lock-port.ts) and the     *)
(* advisory locks of Postgres (src/saga/postgres/advisory-lock-port.ts).   *)
(* A unit canonicalizes what its steps declare (src/saga/lock-port.ts),    *)
(* takes one lock after the other and gives them up when it settles.  A    *)
(* step of the model is the code between two awaits.                       *)
(***************************************************************************)
EXTENDS Integers, Sequences, FiniteSets

CONSTANTS
  Units,     \* units of work
  Names,     \* (namespace, key) identities; < is the code-unit order
  Keys,      \* what a port locks; < is its physical order
  Scenes     \* the ports and the units that meet, one of them per behavior

Mode == {"shared", "exclusive"}
Request == [name : Names, mode : Mode, timed : BOOLEAN]

ASSUME NamesAssumption == Names \subseteq Nat /\ Keys \subseteq Nat
\* A scene: its port; the key a port derives from a name (the memory port locks the name itself);
\* per unit the requests of its steps, timed when they or the port's default name a timeout; the
\* session the units get; whether a lock_timeout of the session bounds every wait; whether the port
\* accepts a REPEATABLE READ transaction.
ASSUME ScenesAssumption ==
  \A s \in Scenes :
    /\ s.port \in {"memory", "postgres"}
    /\ s.key \in [Names -> Keys]
    /\ s.port = "memory" => ~s.impatient /\ \A n \in Names : s.key[n] = n
    /\ s.declared \in [Units -> Seq(Request)]
    /\ s.session \in {"read committed", "repeatable read", "autocommit"}
    /\ s.impatient \in BOOLEAN
    /\ s.allowSnapshot \in BOOLEAN

VARIABLES
  scene,     \* the scene of this behavior
  holders,   \* per key: the units granted
  queue,     \* per key: the units waiting, oldest first
  entries,   \* the keys that have an entry: in the port's map, or in Postgres' lock table
  at,        \* per unit: where it is
  taken,     \* per unit: the keys it was told it holds
  arrivals,  \* per key: the running units that asked for it, in the order they did
  impatient, \* per unit: whether the lock_timeout of its transaction bounds a wait
  error      \* per unit: what its work threw

lockVars == <<holders, queue, entries, taken, arrivals, impatient>>

Places == {"idle", "locking", "waiting", "granted", "working", "blocked", "failing", "settled"}
None == "none"

-----------------------------------------------------------------------------
(* canonicalLocks and canonicalPhysical: one request per key. *)

Of(u) == {scene.declared[u][i] : i \in DOMAIN scene.declared[u]}
Key(q) == scene.key[q.name]
KeysOf(u) == {Key(q) : q \in Of(u)}

\* Faulty: the first of the names that share a key decides.
ModeOfFirst(u, k) ==
  (CHOOSE q \in Of(u) :
     Key(q) = k /\ \A p \in Of(u) : Key(p) = k => q.name <= p.name).mode

\* mergeLockRequests: exclusive wins.
ModeOf(u, k) ==
  IF \E q \in Of(u) : Key(q) = k /\ q.mode = "exclusive" THEN "exclusive" ELSE "shared"

\* The smallest defined timeout wins: one defined timeout bounds the wait.
Timed(u, k) == \E q \in Of(u) : Key(q) = k /\ q.timed

Missing(u) == KeysOf(u) \ taken[u]

\* Faulty: the keys are taken in the order of their names, as the runner passes them.
IsNextByName(u, k) ==
  /\ k \in Missing(u)
  /\ \E q \in Of(u) :
       Key(q) = k /\ \A p \in Of(u) : Key(p) \in Missing(u) => q.name <= p.name

\* The next lock in the order of the keys.
IsNext(u, k) == k \in Missing(u) /\ \A j \in Missing(u) : k <= j

-----------------------------------------------------------------------------
(* The readers-writer lock of one key. *)

Compatible(held, u, k) ==
  IF ModeOf(u, k) = "exclusive"
  THEN held = {}
  ELSE \A v \in held : ModeOf(v, k) = "shared"

\* pump: how many waiters of q are granted, from the head while they are compatible.
Pumped(held, q, k) ==
  CHOOSE n \in 0 .. Len(q) :
    /\ \A i \in 1 .. n : Compatible(held \cup {q[j] : j \in 1 .. i - 1}, q[i], k)
    /\ n < Len(q) => ~Compatible(held \cup {q[j] : j \in 1 .. n}, q[n + 1], k)

\* Nobody holds and nobody waits: the entry of the key is deleted.
Deserted(held, q) == held = {} /\ q = <<>>

\* queue.splice(queue.indexOf(waiter), 1)
Without(q, u) ==
  IF \E i \in DOMAIN q : q[i] = u
  THEN LET gone == CHOOSE i \in DOMAIN q : q[i] = u
       IN [j \in 1 .. Len(q) - 1 |-> IF j < gone THEN q[j] ELSE q[j + 1]]
  ELSE q

\* The unit u leaves the keys `freed`, as holder or as waiter, and goes to `place`: each key is
\* pumped, and its entry is deleted when nobody is left.
Vacate(u, freed, place) ==
  LET left(k) == holders[k] \ {u}
      rest(k) == Without(queue[k], u)
      count(k) == Pumped(left(k), rest(k), k)
      woken(k) == {rest(k)[i] : i \in 1 .. count(k)}
  IN /\ holders' = [k \in Keys |-> IF k \in freed THEN left(k) \cup woken(k) ELSE holders[k]]
     /\ queue' = [k \in Keys |->
                    IF k \in freed THEN SubSeq(rest(k), count(k) + 1, Len(rest(k))) ELSE queue[k]]
     /\ entries' = entries \ {k \in freed : Deserted(left(k) \cup woken(k), rest(k))}
     /\ at' = [v \in Units |->
                 IF v = u THEN place
                 ELSE IF \E k \in freed : v \in woken(k) THEN "granted" ELSE at[v]]

-----------------------------------------------------------------------------
LockInit ==
  /\ scene \in Scenes
  /\ holders = [k \in Keys |-> {}]
  /\ queue = [k \in Keys |-> <<>>]
  /\ entries = {}
  /\ at = [u \in Units |-> "idle"]
  /\ taken = [u \in Units |-> {}]
  /\ arrivals = [k \in Keys |-> <<>>]
  /\ impatient = [u \in Units |-> scene.impatient]
  /\ error = [u \in Units |-> None]

\* assertIsolation: the snapshot of the transaction is older than the wait for the lock.
SnapshotRefused ==
  scene.port = "postgres" /\ scene.session = "repeatable read" /\ ~scene.allowSnapshot

\* The body of a unit calls acquire(): without locks it goes straight to its steps, a transaction
\* whose reads the locks would not protect is refused before the first of them.
StartsAt(u) ==
  IF KeysOf(u) = {} THEN "working" ELSE IF SnapshotRefused THEN "failing" ELSE "locking"

Start(u) ==
  /\ at[u] = "idle"
  /\ at' = [at EXCEPT ![u] = StartsAt(u)]
  /\ error' = [error EXCEPT ![u] = IF StartsAt(u) = "failing" THEN "usage" ELSE None]
  /\ UNCHANGED <<scene, lockVars>>

\* lockAll: the timeout of the request, or the one the transaction came with.
WantedTimeout(u, k) == scene.impatient \/ Timed(u, k)

\* SET LOCAL does nothing outside a transaction, and the memory port has a timer per waiter.
SetsTimeout == scene.port = "postgres" /\ scene.session # "autocommit"

GrantedAtOnce(u, k) ==
  \/ k \notin entries
  \/ queue[k] = <<>> /\ Compatible(holders[k], u, k)

LockOne(u) ==
  /\ at[u] = "locking"
  /\ \E k \in Keys :
       /\ IsNext(u, k)
       /\ entries' = entries \cup {k}
       /\ arrivals' = [arrivals EXCEPT ![k] = Append(@, u)]
       /\ impatient' = IF SetsTimeout THEN [impatient EXCEPT ![u] = WantedTimeout(u, k)] ELSE impatient
       /\ \/ /\ GrantedAtOnce(u, k)
             /\ holders' = [holders EXCEPT ![k] = @ \cup {u}]
             /\ at' = [at EXCEPT ![u] = "granted"]
             /\ UNCHANGED queue
          \/ /\ ~GrantedAtOnce(u, k)
             /\ queue' = [queue EXCEPT ![k] = Append(@, u)]
             /\ at' = [at EXCEPT ![u] = "waiting"]
             /\ UNCHANGED holders
  /\ UNCHANGED <<scene, taken, error>>

\* Faulty: the timeout of the last lock is left for the steps.
RegisterKeepsTimeout(u) ==
  /\ at[u] = "granted" /\ scene.session # "autocommit"
  /\ \E k \in Keys :
       /\ IsNext(u, k)
       /\ taken' = [taken EXCEPT ![u] = @ \cup {k}]
       /\ at' = [at EXCEPT ![u] = IF Missing(u) = {k} THEN "working" ELSE "locking"]
  /\ UNCHANGED <<scene, holders, queue, entries, arrivals, impatient, error>>

\* The lock has been granted: the next one follows; after the last one the timeout is set back.
Register(u) ==
  /\ at[u] = "granted" /\ scene.session # "autocommit"
  /\ \E k \in Keys :
       /\ IsNext(u, k)
       /\ taken' = [taken EXCEPT ![u] = @ \cup {k}]
       /\ IF Missing(u) = {k}
          THEN /\ at' = [at EXCEPT ![u] = "working"]
               /\ impatient' = [impatient EXCEPT ![u] = scene.impatient]
          ELSE at' = [at EXCEPT ![u] = "locking"] /\ UNCHANGED impatient
  /\ UNCHANGED <<scene, holders, queue, entries, arrivals, error>>

\* assertInTransaction: the lock went with the statement that took it, and so did the probe.
ProbeLost(u) ==
  /\ at[u] = "granted" /\ scene.session = "autocommit"
  /\ \E k \in Keys : IsNext(u, k) /\ Vacate(u, {k}, "failing")
  /\ error' = [error EXCEPT ![u] = "usage"]
  /\ UNCHANGED <<scene, taken, arrivals, impatient>>

BoundedWait(u, k) == IF scene.port = "memory" THEN Timed(u, k) ELSE impatient[u]

\* Faulty: the waiters behind the one that gave up are not looked at.
TimeoutWithoutPump(u) ==
  /\ at[u] = "waiting"
  /\ \E k \in Keys :
       /\ IsNext(u, k) /\ BoundedWait(u, k)
       /\ queue' = [queue EXCEPT ![k] = Without(@, u)]
  /\ at' = [at EXCEPT ![u] = "failing"]
  /\ error' = [error EXCEPT ![u] = IF scene.port = "memory" THEN "lock-timeout" ELSE "55P03"]
  /\ UNCHANGED <<scene, holders, entries, taken, arrivals, impatient>>

\* The timer of a waiter fires: it leaves the queue, those behind it may go, its unit fails.
Timeout(u) ==
  /\ at[u] = "waiting"
  /\ \E k \in Keys : IsNext(u, k) /\ BoundedWait(u, k) /\ Vacate(u, {k}, "failing")
  /\ error' = [error EXCEPT ![u] = IF scene.port = "memory" THEN "lock-timeout" ELSE "55P03"]
  /\ UNCHANGED <<scene, taken, arrivals, impatient>>

\* transactions.run has settled, and with it the transaction: the locks the unit took are given up
\* by Postgres, or by the runner, which calls what the memory port registered.
LetGo(u, place) ==
  /\ Vacate(u, taken[u], place)
  /\ taken' = [taken EXCEPT ![u] = {}]
  /\ arrivals' = [k \in Keys |-> Without(arrivals[k], u)]
  /\ impatient' = [impatient EXCEPT ![u] = scene.impatient]

-----------------------------------------------------------------------------
Waiters(k) == {queue[k][i] : i \in DOMAIN queue[k]}

\* Two units that declared the same name, one of them exclusively, never work at the same time,
\* whichever of the declarations came first, whichever names share a key, whatever timed out before,
\* and whatever session they were given.
Working == {"working", "blocked"}
DeclaredLocksExclude ==
  \A u, v \in Units :
    u # v /\ at[u] \in Working /\ at[v] \in Working =>
      \A p \in Of(u), q \in Of(v) : p.name = q.name => p.mode = "shared" /\ q.mode = "shared"

\* The queue is fair and loses no grant: nobody is granted a lock before a waiter that asked earlier
\* ("a waiting writer is never starved by later readers"), and whoever is first in it is really
\* blocked, after a release and after the timeout of a waiter ahead of it (pump).
HeadIsBlocked ==
  \A k \in Keys : queue[k] # <<>> => ~Compatible(holders[k], queue[k][1], k)
ArrivedBefore(k, u, v) ==
  \E i, j \in DOMAIN arrivals[k] : i < j /\ arrivals[k][i] = u /\ arrivals[k][j] = v
NoOvertaking ==
  \A k \in Keys : \A u \in holders[k], v \in Waiters(k) : ArrivedBefore(k, u, v)
QueueIsFair == HeadIsBlocked /\ NoOvertaking

\* "Restore so the lock timeout never leaks into the step's own row locks" (lockAll): a wait for a
\* lock is bounded exactly when that lock, and no earlier one, asked for it or the session does, and
\* a step waits for a row no less patiently than its session would.
TimeoutsStayWithTheirLocks ==
  \A u \in Units :
    /\ at[u] \in Working => impatient[u] = scene.impatient
    /\ at[u] = "waiting" =>
         \A k \in Keys : IsNext(u, k) /\ SetsTimeout =>
           impatient[u] = (scene.impatient \/ Timed(u, k))
=============================================================================
