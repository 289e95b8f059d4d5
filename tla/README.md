# Estela, specified

TLA+ modules, TLC runs and TLAPS proofs for estela, a TypeScript library of message channels,
integration flows, inbound and outbound endpoints and database sagas for NestJS. Everything here is
translated from the code under `src/`; the line ranges of each definition are in `PROJECT.json`
("map"). Paths below are relative to the sources of the library (`src/src/`) unless they begin
with `docs/` or are `README.md`, which are the repository's.

* [The system](#the-system)
* [Modules](#modules)
* [Runs](#runs)
* [Proofs](#proofs)
* [Observations](#observations)
* [What is not modelled](#what-is-not-modelled)
* [Plan](#plan)

## The system

| component | state | operations | who calls it |
| --- | --- | --- | --- |
| saga definition (`saga/saga.ts`, `saga/segments.ts`, `saga/lock-port.ts`) | none once built | build, check, group into units, resolve locks | the application, the runner |
| saga runner (`saga/saga-runner.ts`, `saga/unit-of-work.ts`, `saga/retry-policy.ts`) | per `run()`: position, `RunState` (key, claimed, replay), ctx and its checkpoint, afterCommit callbacks, registered releases | `run`, and inside it: claim, acquire, steps, commit, undo, retry, outbound call, compensate, record | application code; steps may run nested scopes |
| idempotency ledger (`saga/idempotency-ledger.ts`) | one row per key: absent, pending, applied with the reply | claim, record, release | the runner, inside a unit's transaction |
| transaction port (`saga/transaction-port.ts`) | a database | `run(work)`: commit or roll back; may call `work` again | the runner |
| lock ports (`testing/memory-lock-port.ts`, `saga/postgres/advisory-lock-port.ts`) | holders and a FIFO queue per lock; a session's `lock_timeout` | acquire; release by scope or with the transaction | the runner |
| transitions (`saga/state-machine.ts`, `saga/transition.ts`, their ports) | a column of the application's row | compare-and-set of an entity's state | steps |
| channels (`channels/*.ts`, `channel.ts`, registry and dispatcher) | direct: one handler; queue: buffer, consumers, cursor, pump; pub/sub: subscribers, group cursors; fanout: bindings | subscribe, send, close | flows, activators, gateways, inbound |
| reply gateway (`gateway/reply-gateway.ts`, `channels/one-shot.ts`) | per call: an ephemeral reply channel, a timer, a promise | sendAndReceive | inbound, jumps, application |
| inbound (`inbound/*.ts`) | an idempotency store: one entry per key with a TTL | plan, claim, dispatch, settle (complete, store, release, fail), respond | REST, gRPC, GraphQL, RabbitMQ |
| flows and activators (`flow/*.ts`, `activator/*.ts`) | the same store, under their own scopes | handle a message, reply, jump, tap, publish, complete or fail the key | channels |
| outbound (`outbound/*.ts`) | per call: attempts, a timer | plan, build the request, call with timeout and retries, reply | channels, sagas |
| headers and trace (`message.ts`, `trace/trace-context.ts`, `adapters/*.ts`) | the ambient trace | make, copy, hop, map to and from a protocol | everybody |
| module (`integration.module.ts`) | the phase of the application | start, bind the broker, shut down | NestJS |

JavaScript runs one callback at a time, so the concurrency of the library is that of its awaits:
between two of them nothing else runs, across each of them everything else may. The database and
the stores are shared by several processes. What is hard here is therefore
*what a component read before an await and uses after it*, *what is left behind by a failure between
two awaits*, and *in which order two waiting parties are resumed*; the list with its lines is
`PROJECT.json` ("hazards"). What makes each part correct:

* **saga runner**: duplicates of a request never do its work beside each other; the work stands at
  most once; an answer is that of complete, committed work; nothing committed is repeated; a retry
  starts from the state the failed attempt started from; locks end with their attempt; a key is not
  left blocked without a reason; every run ends.
* **locks and transitions**: declared locks exclude, nobody overtakes or is forgotten, a timeout
  belongs to its lock, a lost race is never a silent success, a unit moves its entities once or not at
  all, opposite declarations do not deadlock.
* **queue**: every accepted message is handed out exactly once, in order, in turns, and soon.
* **request/reply and outbound calls**: the first reply or the timeout, never both and never neither;
  nothing is left; an effect is repeated only where the declarations license it.
* **inbound idempotency**: one execution per key and TTL, repeats are told what happened, a key that
  is handed down never silences another request.
* **flows and activators**: a delivery is acknowledged on behalf of work that is done or has an owner;
  a method runs once per claim; a flow goes on with genuine replies; every jump ends and releases its
  reply channel.
* **channels and module**: copies do not answer the caller, fanouts are not endless, the broker
  delivers into a complete application, a shutdown leaves no queue with a message.

## Modules

| module | models | state and actions |
| --- | --- | --- |
| `SagaRunner` | concurrent `run()` calls of one saga over the ports' promises | `pc`, `seg`, `unit`, `attempt`, `calls` and `err` are where a run is; `claimed`, `saved`, `replayOf` are its `RunState` and the copy `runAttempt` takes; `ctx` and `ckpt` count what each segment did to ctx; `hooks` the registered callbacks; `lastLocks` what a compensation inherits; `ledger`, `row`, `db`, `undone` are the database with the uncommitted row of each open transaction; `held` the locks; `sent`, `fired` what the world saw |
| `IdempotentKey` | what a key promises a client, without the machinery | a key is free, taken or applied; `SagaRunner` implements it under the mapping at its end |
| `SagaDefinition` | the builder, the checks, segments, canonical locks, what a runner refuses, backoff, checkpoints | operators only; `MCSagaRunner` compares them with what they promise and builds its segments with them |
| `LockPort` | both lock ports under units that canonicalize their requests | `holders`, `queue`, `entries` are the port's map; `at`, `taken`, `impatient` the units and the `lock_timeout` of their sessions; `scene` says which port, keys and sessions meet |
| `StateMachine`, `DatabaseUnits` | `transition()` over rows in memory or in Postgres, under the locks of `LockPort` (which it extends), with the classification and retry of errors | `history` the visible moves of each entity, `pending` what each open transaction has moved, `snapshot`, `seen` what a unit has read, `attempt`; `made` how many moves the steps of a unit have made |
| `QueueChannel` | the bounded FIFO channel | the fields of the class; a worker (the pump or a call of `close`) is `handling` while it awaits a handler |
| `Options` | options of an endpoint over those of the module; which strategies are usable | operators shared by the two plans |
| `InboundPlan`, `InboundGate` | the plan of an endpoint, its key and its responses; requests with one client key at it | `policy` is the plan; `entry` the store's record; `pc`, `error` the dispatch; `flow` the flow it started, which lives on when the dispatch gives up; `handed` the keys the flow's own scope knows |
| `RequestReply` | `sendAndReceive` and its one-shot wait | `registered`, `subscribed`, `timer`, `wait` are the ephemeral channel and the wait; `flow` an abstract responder |
| `OutboundPlan`, `OutboundCall` | the plan of a binding and the request it makes of a message; the attempt loop as the responder of a `RequestReply` call | `request`, `attempts`, `stage`, `clock` are the exchange; `wire` the requests the server has not seen, `effects` what it did |
| `FlowEndpoint` | deliveries of one key from the broker through a flow and its jumps to the activators they call, each layer with the key under its own scope | `broker`, `flow`, `jump`, `act` are where the listener, `FlowExecutor.execute`, `runJump` and `invokeActivator` are; `open`, `wait` the ephemeral channel and the wait of a jump; `entry` the store per scope; `plan` the definition of the jump |
| `Glob`, `ChannelRuntime` | the module and the channels, flows and activators it wires | `work` is a tree of pending sends, waits and tasks; `subs`, `cursor`, `buffer`, `taken`, `closed` the channels; `phase`, `bound`, `closing` start and shutdown |
| `Headers` | the headers of a message on every kind of hop and across a protocol | operators only; checked by `MCChannelRuntime` |
| `MC...` | instances for TLC | values of the constants, and assumptions that compare operators with their documented meaning over bounded inputs |
| `..._proofs` | theorems | see [Proofs](#proofs) |

A step of a model is the code between two awaits whose order somebody else can observe. Some choices
a reader of the code may want to know:

* *One run, one process.* Runs are the duplicates, client retries and unrelated requests that meet
  at one database. `Crash` ends one of them: its open transaction rolls back, its memory is gone.
* *The database is what the ports promise.* A ledger row is invisible until commit; a claim of a
  row that another open transaction wrote waits (`RowBusy`), as a unique index makes it wait. A
  ledger with `transactional: false` writes through. Locks go with the transaction, or, with an
  in-process port, when the runner calls the registered releases (`LocksOutliveTx`). `DatabaseUnits`
  has row locks, snapshots and deadlocks of its own, as Postgres documents them.
* *Errors have a kind.* In `SagaRunner` `retryable` stands for a kind in `retry.on`, `fatal` for
  everything else, among it an in-progress key and a COMMIT whose answer was lost; `DatabaseUnits`
  classifies the SQLSTATEs those kinds come from.
* *Definition checks are assumptions of the runner.* What `assertRetryable` and `resolveIdempotency`
  refuse before anything runs is an `ASSUME` of `SagaRunner`; the checks themselves are in
  `SagaDefinition`.
* *Data are small.* A header text is a number, a state or a key a model value, a body only whether it
  serializes. A checkpoint is a graph of values, each with its kind and what it holds.
* *A crash of the process* in `FlowEndpoint` ends everything it held: the store in memory is emptied, the
  broker delivers again. The message's channel is one that awaits its flow, a direct one; behind a queue
  a message is acknowledged once it is accepted. Every message there carries a key.
* *One detail, one module.* `ChannelRuntime` takes a queue as the buffer it is, and leaves the pump's
  wake-ups to `QueueChannel`, jumps to `FlowEndpoint` and reply channels to `RequestReply`.
* *The last subscriber wins.* A direct channel keeps the handler that subscribed last (`Displaced`), and
  a name that is declared twice is one channel, the first; an application may do both.
* *Variables only properties read*: `db`, `undone`, `sent`, `fired`, `reopened` of the runner, `accepted`,
  `started` and `since` of the queue, `arrivals` of the locks, `outlived` and `term` of the gate,
  `started`, `worked` and `done` of the endpoint, `answers` of the runtime. `effects` of an outbound call
  stands for the server's memory.
* An operator whose comment begins with *Faulty* is a plausible mistake, used to show that a
  property can tell the difference; no action of the specification uses it.

## Runs

| run | question | bounds |
| --- | --- | --- |
| `SagaKeyed` | Does a key keep its promise among duplicates, whatever fails? | 3 runs of one key (the first, a duplicate that meets it, a retry that comes after), transaction - compensated outbound - transaction, 2 attempts. Three segments are the fewest with a unit before and after an external effect |
| `SagaOutboundFirst` | Does a saga that opens with a call claim first, retry cleanly, drop the callbacks of what was rolled back, and end? | 2 runs, 4 segments, one lock, 2 attempts, 2 calls of the work per attempt (an attempt has callbacks of its own, `unit-of-work.ts:179`; a second call in it finds them cleared by `undoCall`); weak fairness per run. Its assumptions check `SagaDefinition` over all lists of up to 5 builder calls |
| `SagaMemory` | What if no rollback reaches the claim or the locks? | 3 runs, two of them with one key, 2 locks they share in part, 2 segments, 2 calls of the work, COMMITs that fail. Retries are refused over such a ledger |
| `SagaTwoOutbounds` | *violation:* the class comment on compensation after an external effect | 2 runs, 2 outbound steps |
| `Queue` | Is every message handed out once, in order, in turns, eventually? | 3 messages over a capacity of 2, so that a send is refused and a buffer is full beside a running handler; 2 consumers; 2 closers |
| `QueueDrain` | *violation:* `close()` as a complete drain | 2 messages, 1 consumer |
| `Locks` | Do locks exclude, stay fair and clean up, are moves neither lost nor doubled, does every unit settle? | 4 units, 3 names, 2 entities, 2 attempts, in 7 scenes: readers and writers in opposite orders with one that gives up; rows in memory; names that share a physical key or sort unlike it, with deadlocks over rows and lost connections; REPEATABLE READ; a session the port refuses; autocommit; a table without versions |
| `Inbound` | Is the work of a key done once per TTL, and are repeats told the truth? | 3 requests with one client key, two of one tenant, at 13 endpoints; the TTL of a key passes once: claims before, across and after it |
| `ReplyCalls` | Does a call get its first reply or its timeout, leave nothing and repeat no effect unlicensed? | one awaited and one queued call of one message, 3 replies: one that wins, one ignored, one late; 8 bindings over a module default, 3 targets, 1 to 3 attempts |
| `Endpoint` | Do the key of the flow and the keys of its activators keep their promises across timeouts, late replies, expired keys and crashes, and does everything end? | 2 deliveries of one key. One target, direct or queued, with 2 upsets (an expired key or a crash: both deliveries can work at a time, and one again after the other's crash); two targets without upsets, so that a jump outlives the failure of its sibling or is not waited for |
| `Runtime` | Does every delivery find its consumers and settle, from start to shutdown, and no copy answer? | 10 applications: fanouts in a circle through a queue, fanouts bound to each other, every kind of copy in one flow, queues that feed queues closed before them, groups with patterns, consumers that leave, one that is refused, a consumer of the error channel that takes note and one that fails; one or two messages; 5 error envelopes, which only the application with the failing consumer exhausts (the others would deadlock or not settle in the run if they did) |
| `RuntimeTap` | *violation:* a tapped copy does not answer | one application |

All passing runs explore their instance completely. They keep TLC's deadlock check, with an explicit
stuttering step for "everybody is done"; only `Queue` switches it off, because a channel that nobody
uses may rest. Symmetry is declared only where all properties are safety properties.

`Locks`, `Inbound`, `Endpoint`, `Runtime` and `ReplyCalls` choose their scene, endpoint, plan, application
or binding at the start, so that one run covers declarations that differ in more than a constant.

**Assumptions that TLC evaluates.** Pure algorithms are compared with a definition written from what is
documented: the builder, segments, lock order, nesting, backoff and checkpoints of a saga
(`MCSagaRunner`); `forward`, the encoding of keys and what a repeat is sent beside the first response
(`MCInboundGate`); features, precedence of headers and backoff of outbound calls (`MCOutboundCall`);
routing patterns, and traces, keys and reply channels along all journeys of up to three hops
(`MCChannelRuntime`).

**Fairness.** `SagaOutboundFirst` assumes that each run that can take a step takes one: the event
loop, the database and the lock port answer. Nothing is assumed about a crash. `Queue` assumes
that scheduled callbacks run and that handlers settle, but not that anybody sends, subscribes or
closes. `Locks` assumes that promises resolve, steps end and timers fire. `ReplyCalls` assumes that
the caller's continuations run, timers fire and awaited responders other than an outbound call return:
the code bounds an awaited send by nothing else (`reply-gateway.ts:47`). Of an outbound call it
assumes its own steps and its timer, and nothing of the server; so a queued call's exchange ends too,
although its caller has left at the reply timeout and nobody cancels it. Any other responder behind a
queue may hang for ever. `Endpoint` assumes the same of the broker's deliveries, the flow, the timers
of its jumps and the activators on direct channels (`jump.step.ts:70`), and neither that a crash happens nor that
it does not. `Runtime` assumes that started work goes on and that a begun shutdown does; clients,
the broker and the signal to stop are free. Its `EverythingSettles` is about applications whose
consumers of the error channel do not fail (`ErrorsHandled`): one that fails is told of its own failure
and waits for that report (see [Observations](#observations)), so nothing bounds the chain but
`Reports`. Fairness is weak everywhere.

**Violations.** Three sentences of the repository are contradicted by what the code does; the
findings quote them. (1) The class comment of `SagaRunner` says that a failure after a successful
outbound step is not compensated; a later outbound step that fails is. (2) `QueueChannel`
calls its `close()` a drain; it resolves while the pump's last handler is still running. (3) The
README and the comment of `nextHop`'s options say that a tapped copy has no reply channel; it keeps
the caller's, and an activator behind the tap answers the caller.

**What the properties leave to the application.** `ActsAlone` has an exception over a ledger that writes
through: a compensation frees the key before its COMMIT, so when that COMMIT fails another run can claim,
and a port that calls the compensation again runs it beside that run (`Reopened`; the first observation
below). `SagaMemory` reaches the case. `EffectOncePerKey` is about committed work, not
about outbound calls that went out before a compensation. `HooksFollowCommits` does not promise that
callbacks survive a crash between commit and drain: the docs exclude it. `StuckOnlyAfterEffect` says
when a *failed* run may leave its key in progress; a crashed run may always, and nothing in the code
frees that key. `WorkOncePerTtl` excepts dispatches that outlive their TTL and classifiers that release
unanswered work: the store's calls carry no owner. `EffectsAreLicensed` trusts the server to keep an
idempotency key.

## Proofs

Eight modules hold theorems. They hold for every value of the constants that the named assumptions of
the modules allow: any number of runs, units, requests, consumers or deliveries, any saga, any
bounds.

| module | theorems (the property each proves) | further assumptions |
| --- | --- | --- |
| `SagaRunner_proofs` | `TypeCorrect` (`TypeOK`), `ClaimFirst` (`ClaimComesFirst`), `LocksReleased` (`LocksFollowAttempts`), `DuplicatesExcluded` (`ActsAlone`) | the last: a transactional ledger |
| `SagaEffects_proofs` | `SegmentsRunOnce` (`NeverRerun`), `HooksOncePerCommit` (`HooksFollowCommits`), `AttemptsStartClean` (`RetriesSeeCleanCtx`), `LockedUnitsExclude` (`LockedStepsExclude`) | none |
| | `WorkStandsOnce` (`EffectOncePerKey`), `AnswersAreGenuine` (`AnswerIsGenuine`), `RunsKeepThePromise` (`KeepsKeyPromise`, the refinement of `IdempotentKey`) | a transactional ledger, a compensation for every outbound step; the refinement: some segment is a transaction |
| | `StuckKeysHaveAReason` (`StuckOnlyAfterEffect`) | a release by hand succeeds (`ReleasesWork`); the COMMIT of the claim-only unit is answered (`ClaimUnitsAnswer`) |
| `QueueChannel_proofs` | `QueueTypeCorrect`, `AcceptedIsHandedOut` (`NothingLostOrTwice`), `TurnsDifferByOne` (`TurnsAreFair`), `PumpOneAtATime` (`PumpTakesItsTurn`), `NoLostWakeUp` | finitely many consumers |
| `InboundGate_proofs` | `GateTypeCorrect`, `WorkHappensOnce` (`WorkOncePerTtl`), `ClaimsSettle` (`ClaimsAreSettled`), `RepeatsTellTheTruth` (`RepeatsAreTrue`) | none |
| | `HandedKeysStaySafe` (`HandedKeysNeverSilence`) | no endpoint forwards the raw key by an option of its own |
| `OutboundCall_proofs` | `CallsLeaveNothing` (`NothingLeaks`), `CallsEndGenuinely` (`OutcomesAreGenuine`), `ExchangeImplementsResponder` (`OutboundSpec => Spec`), `WorkIsLicensed` (`EffectsAreLicensed`) | none |
| `FlowEndpoint_proofs` | `EndpointTypeCorrect`, `NobodyIsForgotten` (`AcknowledgedWorkHasAnOwner`), `RepliesAreGenuine` (`FlowsGoOnWithReplies`), `MethodsRunOncePerClaim` (`OneRunPerClaim`) | none |
| `ChannelRuntime_proofs` | `RuntimeInvariant`, `CopiesStayQuiet` (`FannedCopiesNeverAnswer`), `FanoutsEnd` (`NoEndlessFanout`), `DeliveriesAreServed` (`DeliveriesFindConsumers`), `ShutdownsDrain` (`NothingStaysQueued`) | none |
| `DatabaseUnits_proofs` | `DeclarationsExclude` (`DeclaredLocksExclude`), `QueuesAreFair` (`QueueIsFair`), `TimeoutsDoNotLeak` (`TimeoutsStayWithTheirLocks`), `EntriesGoEmpty`, `LostRacesAreErrors` (`NoMoveIsLost`), `UnitsAreAtomic` (`UnitsMoveOnce`) | none |

**The runner.** `LocalInv == TypeOK /\ ControlInv /\ MemoryInv` is about one run at a time: which
labels go with which units and segments, that `saved` implies `claimed`, that a run with a key that
works has claimed it, that locks are held only inside an attempt. Every step changes one run, so each
conjunct is proved action by action for that run and by its frame for the others. `OwnershipInv`
relates the runs to the ledger: at most one open transaction has written the row of a key
(`OneWriter`), an uncommitted row belongs to a tentative claim over a free key (`Row`), and a claim
whose unit committed is the pending row of the ledger (`Owns`). Mutual exclusion alone is not
inductive: in a state in which two runs both believe that their claim is committed, it holds, and both
go on to act. With ownership it follows: two runs of one key that act have each a tentative or a
committed claim, two committed ones are the same row, two tentative ones are two writers, and a
tentative claim stands over a free key while a committed one does not. Over a ledger that writes
through, the rollback cannot reach the claim, and the exclusion rests on the release by hand that
`SagaMemory` checks.

`DoneInv` adds what a run has done: each segment before its position once, none behind it, and the one
in between perhaps, when the run is about to move on or to end (`Landed`: this is what a lost COMMIT
needs); callbacks drained once per segment; a ctx that only the current segment can have spoiled, over
a checkpoint that is clean. `KeptInv` ties it to the ledger: standing or recorded work has its row, a
run that gives the key back has undone its work, a replay has another run's applied row. The refinement
then maps each step to one of `IdempotentKey` or to a stutter; only commits change what a client sees
of a key, and only a transaction writes rows.

`ReasonInv` is what `StuckKeysHaveAReason` needs, as the property speaks of failed runs only: a run
whose claim is in progress in the ledger has made something durable, has called out or is compensating,
or is on its way to a step that will. Its two hypotheses are exactly the two
ways to a stuck key with nothing behind it: a release by hand that fails in a run that undoes its claim
(`saga-runner.ts`, the release of a non-transactional ledger), and a COMMIT of the claim-only unit
whose answer is lost. With either fault the invariant, and the property, fail.

**The locks.** `LocksInv` says of each unit and key that what the unit knows of the key is what the
port knows of the unit (`PairInv`), and of each key (`KeyInv`) that holders share it, that the queue is in
the order of arrival, that holders arrived before waiters, that the head is really blocked, and that a
missing entry means nobody is there. Granting a prefix of the queue keeps all of that; that `pump`
has a stopping place is the well-founded minimum of the positions at which it might stop.

**The rows.** `RowsInv` says that the committed moves of an entity are a path of the machine, that they
still are when a transaction's own moves are joined to them (`Path`), that a row changed by one open
transaction is changed by no other (`RowLocks`), and of whatever a unit has read where on its path that
row lies (`Reads`). The last is why a compare-and-set by state or version suffices: a row
with the expected version is the end of the path, whatever happened since it was read. Lost races
are then errors. `CountsInv` counts: an open transaction has as many moves of an entity as the steps it
has done declare, and what is committed of a unit is nothing or all of it (`Outcome`), depending on
where the unit is and on its error. The only error behind committed work is a connection lost at COMMIT,
which `error-classifier.ts` gives no kind, so that nothing retries it.

**The queue.** The order of the messages is that of one sequence, split into those started and those in
the buffer. The turns need an order among the consumers: by their next turn, from the cursor on; along
it the numbers of turns grow by one at most once (`TurnInv`).

**The gate.** The live entry of a key belongs to the request between claim and settlement, and a flow
that works does so in the term of its claim (`OwnerInv`). `SettledInv` follows the owner of an entry in
flight to its settlement.

`TellsInv` says of every record and of every answer what happened behind it: a stored reply is one of a
request with that key that was resolved, a stored failure one of a request that gave up, and an answer
made from a record goes on saying so when the record has expired. For the handed key, `LiveInv` says
that in a term in which somebody has sent, the record is alive, so that nobody else sends in that term;
`ScopeInv` that the flow's scope knows the keys of dispatched requests and no others. The hypothesis of
`HandedKeysStaySafe` is the plan's own default (`ForwardsByDefault`). An endpoint that says `forward:
'raw'` itself asks for the client's key where tenants share it, or where a dropped repeat awaits a reply
(`README.md:337`, `:349`), and gets that.

**Request/reply and outbound calls.** `Known` says what each stage of a call implies for the wait, its
timer and its channel. The composed calls implement the abstract responder, so its theorems hold of
them; `Licensed` and `EffectsInv` add that an attempt beyond the first needs a licence.

**The endpoint.** `EndpointInv` has a part per kind of knowledge: a jump and its wait (`JumpKnows`), a
key and its method (`KeyKnows`), a flow and the broker (`FlowKnown`), the claim of the flow's key and
its owner; and `Covered`: whoever is acknowledged as a duplicate, or will be, has another delivery to
answer for the key, which the property alone forgets between the decision and the ack.

**The runtime.** Any application, with any channels, consumers, bindings and numbers of messages.
`TypesInv` says what every node of the tree of work carries: its message is *tame*, that is, a copy has
no reply channel, and no channel that only fanouts lead to is in its history more than twice. It is
inductive as the sets of messages are closed under the hops there are: a fanout's copy is one pass more
of a channel passed less than twice (`NotCyclic`); every other send goes to a channel that a step, an
entry point or the broker names, where nothing is counted. `CompleteInv` says that from `binding` on
every consumer is on its channel, and that before, or in an application that could not start, nothing is
in progress: that is why a delivery cannot meet half of an application. `DrainedInv` says that the
queues before the shutdown's position are closed and empty (or without a consumer), which a handler
cannot undo, as a closed queue refuses (`Enqueue`). The elements that `Chosen` takes from a sequence are
found by their rank among the positions: n ranks below n, no two alike, are all of them
(`RanksAreTaken`).

**Only model-checked.** All liveness (the prover does not do it): `EveryRunEnds`, `EveryMessageHandled`,
`EveryUnitSettles`, `EverythingSettles`, `EverythingEnds`. Every invariant of a passing run is a theorem
too, under the assumptions of the table; over a ledger that writes through, the exclusion of duplicates,
with its exception, is what `SagaMemory` shows.
The pure algorithms are compared with their references over bounded inputs: what a recursive
definition computes needs induction over data with an operator as its parameter, which the
provers used cannot instantiate. In the other direction, the `release` fault of the runner (an
in-process release that throws) is enabled in no run: the theorems without `ReleasesWork` cover it.

## Observations

Met while translating; none of them contradicts a sentence of the repository plainly enough to be a
finding, and all of them are what the models do where they are in scope.

* *Sagas.* A compensation over the in-memory ledger frees the key before its COMMIT, so a failing COMMIT
  leaves it free (`saga-runner.ts:334`) where the failure table keeps it claimed
  (`docs/SAGA_CONCURRENCY_SPEC.md:730`), and duplicates can then work beside each other: the exception of
  `ActsAlone`. A COMMIT of the claim-only unit whose answer is lost leaves the
  key of a saga that opens with an outbound step in progress for ever. A lock granted after
  `transactions.run` has rejected would never be released (`unit-of-work.ts:255`); the contract of the
  port excludes it.
* *Channels.* The pattern `#.x` does not match `x`: the dot it brings needs a segment before it. The
  cursor of a group is shared by members with different patterns, so a member can be passed over
  although its turn has come (`pubsub.channel.ts:71`). `to` and `route` steps append their target to the
  history twice; `transform` appends a hop with the flow's name.
* *Fanout.* Copies go to the bindings; a local subscriber gets the message itself, reply channel included,
  and may answer the caller (`fanout.channel.ts:86`), although `README.md:124` speaks of copies to both.
  `FannedCopiesNeverAnswer` is about the copies.
* *Error channel.* A flow or activator that consumes the error channel and fails reports to itself, and
  waits for that report, without bound (`flow-executor.ts:82`, `:139`, `activator-wrapper.ts:112`); any
  other subscriber is reported again and again (`integration.module.ts:161-171`). A queue consumer that is a flow
  reports one failure twice.
* *Keys.* With a TTL at the endpoint shorter than at the flow, the flow drops a repeat that the endpoint
  let through. A disabled endpoint hands the client's raw key down for an explicit `forward: 'resolved'`,
  as a test intends; one that is disabled and fire-and-forget leaves deduplication to the flow. The
  default header lookup sees no headers of a GraphQL request (`README.md:353` says so). A jump's own
  timeout is no `ReplyTimeoutError`, so a static `onFailure: 'release'` applies to it (`jump.step.ts:60`).
* *Traces.* A message made by `registry.send` starts a trace of its own inside another one; a message
  received over a protocol goes on under its sender's span id.

## What is not modelled

* Wording, logging, banners, the channel graph, API documentation, decorators and discovery: they leave
  metadata or text and keep no state that another part depends on.
* The bodies of messages, serializers beyond failing, protobuf and AMQP encodings, HTTP itself.
* `transform` and `filter` functions: an application's code over a payload; a filtered message is modelled.
* A lost AMQP connection: nothing in the code handles it. The outbound publication to a broker.
* A second subscriber that takes a one-shot reply channel over, which only application code could do.
* Channel types that an application adds to the factory; provider wiring of the NestJS module.
* The text of SQL statements; what Postgres does is modelled from how the code uses it.
* Helpers for tests (`saga-test-kit.ts`, `test-unit-of-work.ts`), and `forceNext` of the transition
  port among them.

## Plan

1. *Composition*: the gate over `FlowEndpoint`, where the key of the endpoint, of the flow and of the
   activators meet with three TTLs; each is checked against the next one's interface now.
2. *Error reports* of flows behind queues as part of `FlowEndpoint`, so that the doubled report has a
   property of its own.
3. *Sagas with transitions*: `DatabaseUnits` as the steps of `SagaRunner`, so that a lost race meets a
   compensation.
4. *Proofs*: that `DatabaseUnits` keeps the promises `SagaRunner` takes from its ports (exclusive locks,
   atomic units), as a refinement; the theorems of `FlowEndpoint` for messages without a key.
