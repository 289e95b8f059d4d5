---------------------------- MODULE DatabaseUnits ---------------------------
(***************************************************************************)
(* Units of work that lock, move entities by compare-and-set and commit:   *)
(* transition() (src/saga/transition.ts) over the conditional UPDATE of    *)
(* Postgres (src/saga/postgres/transition-port.ts), or over the rows of    *)
(* MemoryTransitionPort (src/testing/memory-transition-port.ts), under the *)
(* locks of LockPort, with the errors the runner retries                   *)
(* (src/saga/postgres/error-classifier.ts).                                *)
(***************************************************************************)
EXTENDS LockPort, StateMachine

CONSTANTS
  Entities,
  Machine,      \* the map the state machine was defined by
  First,        \* the state entities are created in
  MaxAttempts

\* Of a scene, besides its locks: per unit the moves its steps ask for; whether the table has a
\* version column; the kinds the units retry; whether the adapter hides the row count.
\* A move: its entity, its target, and what the step gives as `from` or `expectedVersion`: nothing,
\* the state it read, or the version it read.
Move == [id : Entities, to : DOMAIN Machine, by : {"sources", "state", "version"}]
Kinds == {"lock-timeout", "deadlock", "serialization", "stale-state"}

ASSUME MachineAssumption == WellDefined(Machine) /\ First \in DOMAIN Machine
ASSUME MovesAssumption ==
  /\ MaxAttempts \in Nat \ {0}
  /\ \A s \in Scenes :
       /\ s.moves \in [Units -> Seq(Move)]
       /\ s.versioned \in BOOLEAN
       /\ s.retried \subseteq Kinds
       /\ s.opaque \in BOOLEAN

VARIABLES
  history,   \* per entity: the moves that are visible to everybody, oldest first
  pending,   \* per unit and entity: the moves that only its transaction has, oldest first
  made,      \* per unit: how many moves its steps have made
  snapshot,  \* per unit: how much of each history its transaction sees, once that is fixed
  seen,      \* per unit: the row its current step has read
  attempt    \* per unit: the attempts begun

rowVars == <<history, pending, made, snapshot, seen, attempt>>
vars == <<scene, holders, queue, entries, at, taken, arrivals, impatient, error,
          history, pending, made, snapshot, seen, attempt>>

Created == [state |-> First, version |-> 0]
NoRow == [state |-> None, version |-> -1]
NoMoves == [e \in Entities |-> <<>>]

-----------------------------------------------------------------------------
(* Driver errors. *)

\* Faulty: a lost connection is a failure like a deadlock.
KindOfCodeOrConnection(code) ==
  CASE code = "55P03" -> "lock-timeout"
    [] code \in {"40P01", "08006"} -> "deadlock"
    [] code = "40001" -> "serialization"
    [] OTHER -> None

\* The kind of an SQLSTATE. A lost connection (08006) is no kind: the commit may have happened.
KindOfCode(code) ==
  CASE code = "55P03" -> "lock-timeout"
    [] code = "40P01" -> "deadlock"
    [] code = "40001" -> "serialization"
    [] OTHER -> None

OrElse(kind, other) == IF kind # None THEN kind ELSE other

\* A driver error carries its code itself (pg), in driverError (TypeORM) or in meta (Prisma), or it
\* is Prisma's own code for a write conflict.
KindOf(e) ==
  OrElse(KindOfCode(e.code), OrElse(KindOfCode(e.driverError), OrElse(KindOfCode(e.meta),
    IF e.code = "P2034" THEN "deadlock" ELSE None)))

MaxCauseDepth == 5

\* classifyPostgresError: the first kind along the chain of causes, the error itself first.
ClassifyPostgresError(chain) ==
  LET kinds == {i \in DOMAIN chain : i <= MaxCauseDepth + 1 /\ KindOf(chain[i]) # None}
  IN IF kinds = {} THEN None
     ELSE KindOf(chain[CHOOSE i \in kinds : \A j \in kinds : i <= j])

\* classify: a typed error says its kind, a driver error is classified, the rest has none.
Classify(e) ==
  IF e \in Kinds THEN e
  ELSE ClassifyPostgresError(<<[code |-> e, driverError |-> None, meta |-> None]>>)

-----------------------------------------------------------------------------
(* What a statement of a unit sees. *)

Last(moves, row) == IF moves = <<>> THEN row ELSE moves[Len(moves)].after
Row(e) == Last(history[e], Created)

Writer(e) == {u \in Units : pending[u][e] # <<>>}
FreeFor(u, e) == Writer(e) \subseteq {u}

Fixes == scene.session = "repeatable read"
Snapshot(u) == IF snapshot[u] = <<>> THEN [e \in Entities |-> Len(history[e])] ELSE snapshot[u]
AsOf(u, e) == Last(SubSeq(history[e], 1, Snapshot(u)[e]), Created)

\* A statement sees the rows its snapshot fixed, or the committed ones, and its own writes.
Visible(u, e) == Last(pending[u][e], IF Fixes THEN AsOf(u, e) ELSE Row(e))
\* The row an UPDATE changes is the latest one.
Latest(u, e) == Last(pending[u][e], Row(e))
TakesSnapshot(u) == snapshot' = IF Fixes THEN [snapshot EXCEPT ![u] = Snapshot(u)] ELSE snapshot

-----------------------------------------------------------------------------
(* transition(): the command of the move a unit is at. *)

Todo(u) == made[u] < Len(scene.moves[u])
Now(u) == scene.moves[u][made[u] + 1]

Sources(u) == IF Now(u).by = "state" THEN {seen[u].state} ELSE SourcesOf(Machine, Now(u).to)
Illegal(u) ==
  \/ Sources(u) = {}
  \/ \E s \in Sources(u) : ~CanTransition(Machine, s, Now(u).to)

\* Faulty: the UPDATE leaves the version out.
MatchesStateOnly(u, row) == row.state \in Sources(u)

\* WHERE id = $2 AND state = ANY($3) [AND version = $4]
Matches(u, row) ==
  /\ row.state \in Sources(u)
  /\ Now(u).by = "version" => row.version = seen[u].version

-----------------------------------------------------------------------------
Init ==
  /\ LockInit
  /\ history = NoMoves
  /\ pending = [u \in Units |-> NoMoves]
  /\ made = [u \in Units |-> 0]
  /\ snapshot = [u \in Units |-> <<>>]
  /\ seen = [u \in Units |-> NoRow]
  /\ attempt = [u \in Units |-> 1]

\* A lock's own statements fix the snapshot of a transaction, before any wait.
Begin(u) ==
  /\ Start(u)
  /\ IF at'[u] = "locking" THEN TakesSnapshot(u) ELSE UNCHANGED snapshot
  /\ UNCHANGED <<history, pending, made, seen, attempt>>

Locking(u) ==
  /\ LockOne(u) \/ Register(u) \/ ProbeLost(u) \/ Timeout(u)
  /\ UNCHANGED rowVars

\* The step reads the row it is about to move.
Read(u) ==
  /\ at[u] = "working" /\ Todo(u)
  /\ Now(u).by # "sources" /\ seen[u] = NoRow
  /\ seen' = [seen EXCEPT ![u] = Visible(u, Now(u).id)]
  /\ TakesSnapshot(u)
  /\ UNCHANGED <<scene, lockVars, at, error, history, pending, made, attempt>>

Asks(u) == at[u] = "working" /\ Todo(u) /\ (Now(u).by = "sources" \/ seen[u] # NoRow)

Throws(u, e) ==
  /\ at' = [at EXCEPT ![u] = "failing"]
  /\ error' = [error EXCEPT ![u] = e]
  /\ UNCHANGED <<scene, lockVars, history, pending, made, seen, attempt>>

\* IllegalTransitionError or TypeError: the database is not asked.
RefuseMove(u) ==
  /\ Asks(u)
  /\ \/ Illegal(u) /\ Throws(u, "illegal")
     \/ ~Illegal(u) /\ Now(u).by = "version" /\ ~scene.versioned /\ Throws(u, "usage")
  /\ UNCHANGED snapshot

Asked(u) ==
  Asks(u) /\ ~Illegal(u) /\ (Now(u).by = "version" => scene.versioned)

\* The row matches, but the transaction of another unit has changed it: the UPDATE waits.
Block(u) ==
  /\ Asked(u) /\ Matches(u, Visible(u, Now(u).id)) /\ ~FreeFor(u, Now(u).id)
  /\ at' = [at EXCEPT ![u] = "blocked"]
  /\ TakesSnapshot(u)
  /\ UNCHANGED <<scene, lockVars, error, history, pending, made, seen, attempt>>

\* The UPDATE finds its row free, at once or after a wait.
Reaches(u) ==
  \/ Asked(u) /\ Matches(u, Visible(u, Now(u).id)) /\ FreeFor(u, Now(u).id)
  \/ at[u] = "blocked" /\ FreeFor(u, Now(u).id)

\* Under REPEATABLE READ it may not change a row that is newer than its snapshot.
Outdated(u) == Fixes /\ Latest(u, Now(u).id) # Visible(u, Now(u).id)

\* affected = 0: a StaleStateError. A row that did not match is not waited for; one that was is
\* looked at again.
MissRow(u) ==
  /\ \/ Asked(u) /\ ~Matches(u, Visible(u, Now(u).id))
     \/ Reaches(u) /\ ~Outdated(u) /\ ~Matches(u, Latest(u, Now(u).id))
  /\ Throws(u, "stale-state")
  /\ TakesSnapshot(u)

SerializationFails(u) ==
  /\ Reaches(u) /\ Outdated(u)
  /\ Throws(u, "40001")
  /\ TakesSnapshot(u)

Moved(u) ==
  LET before == Latest(u, Now(u).id)
  IN [unit |-> u, id |-> Now(u).id, by |-> Now(u).by, read |-> seen[u], before |-> before,
      after |-> [state |-> Now(u).to, version |-> before.version + 1]]

\* affected = 1. The rows of the memory port know no transaction: they have changed for good. An
\* adapter that hides the count makes it an unknown outcome, and the unit fails.
MoveRow(u) ==
  /\ Reaches(u) /\ ~Outdated(u) /\ Matches(u, Latest(u, Now(u).id))
  /\ IF scene.port = "memory"
     THEN /\ history' = [history EXCEPT ![Now(u).id] = Append(@, Moved(u))]
          /\ UNCHANGED pending
     ELSE /\ pending' = [pending EXCEPT ![u][Now(u).id] = Append(@, Moved(u))]
          /\ UNCHANGED history
  /\ made' = [made EXCEPT ![u] = @ + 1]
  /\ seen' = [seen EXCEPT ![u] = NoRow]
  /\ at' = [at EXCEPT ![u] = IF scene.opaque THEN "failing" ELSE "working"]
  /\ error' = [error EXCEPT ![u] = IF scene.opaque THEN "unknown-outcome" ELSE None]
  /\ TakesSnapshot(u)
  /\ UNCHANGED <<scene, lockVars, attempt>>

\* Everybody in S waits for a row that somebody in S has changed.
Deadlocked(u) ==
  \E S \in SUBSET Units :
    /\ u \in S
    /\ \A v \in S : at[v] = "blocked" /\ \E w \in S \ {v} : w \in Writer(Now(v).id)
    /\ \A w \in S : \E v \in S \ {w} : w \in Writer(Now(v).id)

\* Postgres ends a wait for a row: as a deadlock, or by the lock_timeout of the transaction.
\* Waits for advisory locks get no detector here: a deadlock over them would be seen as a unit that
\* never settles.
EndWait(u) ==
  /\ at[u] = "blocked" /\ ~FreeFor(u, Now(u).id)
  /\ \/ Deadlocked(u) /\ Throws(u, "40P01")
     \/ impatient[u] /\ Throws(u, "55P03")
  /\ UNCHANGED snapshot

-----------------------------------------------------------------------------
(* The end of the transaction. *)

Publish(u) == history' = [e \in Entities |-> history[e] \o pending[u][e]]

Leave(u, place) ==
  /\ LetGo(u, place)
  /\ pending' = [pending EXCEPT ![u] = NoMoves]
  /\ made' = [made EXCEPT ![u] = 0]
  /\ snapshot' = [snapshot EXCEPT ![u] = <<>>]
  /\ seen' = [seen EXCEPT ![u] = NoRow]
  /\ UNCHANGED scene

Done(u) == at[u] = "working" /\ ~Todo(u)

Commit(u) ==
  /\ Done(u)
  /\ Publish(u)
  /\ Leave(u, "settled")
  /\ UNCHANGED <<error, attempt>>

\* The connection is lost while it commits: the transaction has happened or not, nobody knows.
LoseConnection(u) ==
  /\ Done(u) /\ scene.port = "postgres" /\ made[u] > 0
  /\ Publish(u) \/ UNCHANGED history
  /\ Leave(u, "failing")
  /\ error' = [error EXCEPT ![u] = "08006"]
  /\ UNCHANGED attempt

Retries(u) == Classify(error[u]) \in scene.retried /\ attempt[u] < MaxAttempts

\* The transaction is rolled back; the unit begins again, or its error is final.
Settle(u) ==
  /\ at[u] = "failing"
  /\ Leave(u, IF Retries(u) THEN "idle" ELSE "settled")
  /\ attempt' = IF Retries(u) THEN [attempt EXCEPT ![u] = @ + 1] ELSE attempt
  /\ UNCHANGED <<error, history>>

-----------------------------------------------------------------------------
Step(u) ==
  \/ Begin(u) \/ Locking(u)
  \/ Read(u) \/ RefuseMove(u) \/ Block(u) \/ MissRow(u) \/ SerializationFails(u) \/ MoveRow(u)
  \/ EndWait(u)
  \/ Commit(u) \/ LoseConnection(u) \/ Settle(u)

AllSettled == (\A u \in Units : at[u] = "settled") /\ UNCHANGED vars

Next == (\E u \in Units : Step(u)) \/ AllSettled

Spec == Init /\ [][Next]_vars

\* Promises resolve, statements end, and timers fire.
FairSpec == Spec /\ \A u \in Units : WF_vars(Step(u))

-----------------------------------------------------------------------------
\* "A lost race is NEVER a silent success": the moves of an entity form one path of the machine, each
\* from the row the one before it left, and a move that was decided on a state or a version it read
\* replaced a row with that state, or with that very version.
Legal(m) ==
  /\ CanTransition(Machine, m.before.state, m.after.state)
  /\ m.by = "state" => m.read.state = m.before.state
  /\ m.by = "version" => m.read = m.before
NoMoveIsLost ==
  \A e \in Entities : \A i \in DOMAIN history[e] :
    /\ history[e][i].before = IF i = 1 THEN Created ELSE history[e][i - 1].after
    /\ Legal(history[e][i])

\* A unit moves all of its entities or none of them, and it moves them once, whatever was retried:
\* all of them when it succeeded, none when its failure has a kind, and one or the other when
\* nobody can know.
MovesOf(u, e) == {i \in DOMAIN history[e] : history[e][i].unit = u}
Count(u) == [e \in Entities |-> Cardinality(MovesOf(u, e))]
AskedOf(u) ==
  [e \in Entities |-> Cardinality({i \in DOMAIN scene.moves[u] : scene.moves[u][i].id = e})]
NothingOf == [e \in Entities |-> 0]
UnitsMoveOnce ==
  scene.port = "postgres" =>
    \A u \in Units :
      /\ Count(u) \in {NothingOf, AskedOf(u)}
      /\ at[u] = "settled" /\ error[u] = None => Count(u) = AskedOf(u)
      /\ at[u] = "settled" /\ error[u] \notin {None, "08006"} => Count(u) = NothingOf

\* "Taking all locks of every saga in the same global order is what keeps two sagas from
\* deadlocking": every unit settles, with or without timeouts, though names share keys.
EveryUnitSettles == \A u \in Units : <>(at[u] = "settled")
=============================================================================
