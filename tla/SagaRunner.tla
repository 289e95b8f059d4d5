----------------------------- MODULE SagaRunner -----------------------------
(***************************************************************************)
(* Concurrent runs of one saga definition: SagaRunner walks the segments   *)
(* (src/saga/saga-runner.ts) and UnitOfWorkExecutor runs each unit of work *)
(* (src/saga/unit-of-work.ts) over the application's transaction port,     *)
(* idempotency ledger and lock port.                                       *)
(*                                                                         *)
(* One step of the model is the code between two awaits whose order other  *)
(* runs can see: a statement of the open transaction, its commit, an       *)
(* outbound call, the catch block of an attempt.  The database is what the *)
(* ports promise: a transaction's ledger write is invisible until commit   *)
(* and a claim of a key whose row another open transaction wrote waits.    *)
(***************************************************************************)
EXTENDS Integers, Sequences, FiniteSets

CONSTANTS
  Runs,            \* concurrent run() calls: first requests, duplicates, client retries
  NoRun,           \* no run
  Keys,            \* idempotency keys
  NoKey,           \* no ledger, or idempotencyKey(ctx) is undefined
  KeyOf,           \* the key of each run
  Segments,        \* segmentsOf(definition.steps)
  Locks,           \* lock identities; < is the canonical order
  LocksOf,         \* locks each run resolves for each transaction segment
  Attempts,        \* retry.attempts; 1 stands for no policy
  MaxCalls,        \* bound: calls of `work` a port makes within one run()
  Transactional,   \* ledger.transactional # false
  LocksOutliveTx,  \* in-process lock port (freed by the runner), else tx-scoped
  Faults           \* the failures the environment may produce

SegIx == 1 .. Len(Segments)
NoLocks == {}
FaultKinds == {"step", "commit", "lostCommit", "reinvoke", "checkpoint", "resolve",
               "reply", "outbound", "lockTimeout", "release", "crash"}

SegmentKind == [kind : {"transaction", "outbound"}, compensates : BOOLEAN, inherits : BOOLEAN]

ASSUME RunsAssumption ==
  /\ NoRun \notin Runs /\ NoKey \notin Keys
  /\ KeyOf \in [Runs -> Keys \cup {NoKey}]
ASSUME SegmentsAssumption == Segments \in Seq(SegmentKind) /\ Segments # <<>>
ASSUME LocksAssumption ==
  /\ Locks \subseteq Nat
  /\ LocksOf \in [Runs -> [SegIx -> SUBSET Locks]]
ASSUME BoundsAssumption == Attempts \in Nat \ {0} /\ MaxCalls \in Nat \ {0}
\* assertRetryable refuses a retry policy with an idempotent saga over such a ledger.
ASSUME LedgerAssumption ==
  /\ Transactional \in BOOLEAN /\ LocksOutliveTx \in BOOLEAN
  /\ ~Transactional /\ (\E r \in Runs : KeyOf[r] # NoKey) => Attempts = 1
\* A crash ends one process: what outlives it is in the database.
ASSUME FaultsAssumption ==
  /\ Faults \subseteq FaultKinds
  /\ "crash" \in Faults => Transactional /\ ~LocksOutliveTx

VARIABLES
  \* where each run is
  pc, seg, unit, attempt, calls, err,
  \* the run's memory: RunState, its copy, ctx, the checkpoint, callbacks, lastLocks
  claimed, saved, replayOf, ctx, ckpt, restorable, hooks, lastLocks,
  \* the database and the lock port
  ledger, row, db, undone, held,
  \* the world outside
  sent, fired,
  \* for ActsAlone: runs whose compensation freed the key in a call that was rolled back
  reopened

ctlVars == <<pc, seg, unit, attempt, calls, err>>
claimVars == <<claimed, saved, replayOf>>
ctxVars == <<ctx, ckpt, restorable>>
dbVars == <<ledger, row, db, undone>>
worldVars == <<sent, fired, reopened>>
vars == <<pc, seg, unit, attempt, calls, err, claimed, saved, replayOf, ctx, ckpt, restorable,
          hooks, lastLocks, ledger, row, db, undone, held, sent, fired, reopened>>

-----------------------------------------------------------------------------
Ended == {"done", "replayed", "failed", "crashed"}
BodyLabels == {"claim", "acquire", "steps", "record"}
Labels == {"walk", "unit", "call", "commit", "undo", "redo", "judge", "backoff", "settle"}
            \cup BodyLabels \cup Ended
Units == {"none", "tx", "claim", "compensate", "record"}

\* One LedgerClaim outcome per status; `by` is the run whose reply an applied row stores.
Entry(st, r) == [st |-> st, by |-> IF st = "free" THEN NoRun ELSE r]
Entries == {Entry("free", NoRun)} \cup {Entry(st, r) : st \in {"pending", "applied"}, r \in Runs}

\* How often each segment was applied.
Tally == [SegIx -> Nat]

Keyed(r) == KeyOf[r] # NoKey
IsTx(i) == Segments[i].kind = "transaction"
IsLastDropped(r) == TRUE  \* faulty: every segment records the reply
IsLast(r) == seg[r] = Len(Segments)

Init ==
  /\ pc = [r \in Runs |-> "walk"]
  /\ seg = [r \in Runs |-> 1]
  /\ unit = [r \in Runs |-> "none"]
  /\ attempt = [r \in Runs |-> 1]
  /\ calls = [r \in Runs |-> 0]
  /\ err = [r \in Runs |-> "none"]
  /\ claimed = [r \in Runs |-> FALSE]
  /\ saved = [r \in Runs |-> FALSE]
  /\ replayOf = [r \in Runs |-> NoRun]
  /\ ctx = [r \in Runs |-> [i \in SegIx |-> 0]]
  /\ ckpt = [r \in Runs |-> [i \in SegIx |-> 0]]
  /\ restorable = [r \in Runs |-> FALSE]
  /\ hooks = [r \in Runs |-> 0]
  /\ lastLocks = [r \in Runs |-> NoLocks]
  /\ ledger = [k \in Keys |-> Entry("free", NoRun)]
  /\ row = [r \in Runs |-> "none"]
  /\ db = [r \in Runs |-> [i \in SegIx |-> 0]]
  /\ undone = [r \in Runs |-> {}]
  /\ held = [r \in Runs |-> NoLocks]
  /\ sent = [r \in Runs |-> [i \in SegIx |-> 0]]
  /\ fired = [r \in Runs |-> [i \in SegIx |-> 0]]
  /\ reopened = {}

-----------------------------------------------------------------------------
(* Helpers on one run's state. *)

Goto(r, label) == pc' = [pc EXCEPT ![r] = label]

\* The unit of work `u` is about to execute.
EnterUnit(r, u) == Goto(r, "unit") /\ unit' = [unit EXCEPT ![r] = u]

NeedsClaim(r) == Keyed(r) /\ ~claimed[r]

\* Faulty: the locks are taken without the claim.
BodyStartUnclaimed(r, isClaimed) == IF unit[r] = "record" THEN "record" ELSE "acquire"

\* Where the body of the current unit starts: the claim comes first, then the locks.
BodyStart(r, isClaimed) ==
  IF unit[r] = "record" THEN "record"
  ELSE IF unit[r] \in {"tx", "claim"} /\ Keyed(r) /\ ~isClaimed THEN "claim"
  ELSE "acquire"

Compensates(r) == Segments[seg[r]].compensates

\* Faulty: a compensation inherits nothing.
WantedBySegment(r) == IF unit[r] = "tx" THEN LocksOf[r][seg[r]] ELSE NoLocks

\* Locks of the unit: those of the segment, those a compensation inherits, or none.
Wanted(r) ==
  IF unit[r] = "tx" THEN LocksOf[r][seg[r]]
  ELSE IF unit[r] = "compensate" /\ Compensates(r) /\ Segments[seg[r]].inherits
       THEN lastLocks[r]
       ELSE NoLocks

\* A ledger statement of r's open transaction, or of a ledger that ignores the handle.
WriteLedger(r, st) ==
  IF Transactional
  THEN row' = [row EXCEPT ![r] = st] /\ UNCHANGED ledger
  ELSE ledger' = [ledger EXCEPT ![KeyOf[r]] = Entry(st, r)] /\ UNCHANGED row

\* Another open transaction wrote the row of r's key: the database makes r wait for it.
RowBusy(r) == \E q \in Runs \ {r} : KeyOf[q] = KeyOf[r] /\ row[q] # "none"

\* The ledger once r's transaction has committed.
Committed(r) ==
  IF row[r] = "none" THEN ledger ELSE [ledger EXCEPT ![KeyOf[r]] = Entry(row[r], r)]

\* Transaction-scoped locks go with the transaction; in-process ones wait for the runner.
HeldAfterTx(r) == IF LocksOutliveTx THEN held ELSE [held EXCEPT ![r] = NoLocks]

\* Faulty: the finally block is missing.
ReleasedNever(r) == held

\* The runner frees the in-process locks of the attempt.
Released(r) == [held EXCEPT ![r] = NoLocks]

\* Faulty: the attempt's changes stay in ctx.
RestoredNever(r) == ctx

\* restore(): ctx as the checkpoint has it.
Restored(r) == [ctx EXCEPT ![r] = ckpt[r]]

-----------------------------------------------------------------------------
(* SagaRunner.walk: one iteration of the loop over the segments. *)

WalkTransaction(r) ==
  /\ pc[r] = "walk" /\ seg[r] \in SegIx /\ IsTx(seg[r])
  /\ EnterUnit(r, "tx")
  /\ lastLocks' = [lastLocks EXCEPT ![r] = LocksOf[r][seg[r]]]
  /\ UNCHANGED <<seg, attempt, calls, err, claimVars, ctxVars, hooks, dbVars, held, worldVars>>

\* resolveLocks throws (no key, too many locks) before the transaction starts: the run ends.
ResolveFails(r) ==
  /\ "resolve" \in Faults
  /\ pc[r] = "walk" /\ seg[r] \in SegIx /\ IsTx(seg[r])
  /\ Goto(r, "failed")
  /\ UNCHANGED <<seg, unit, attempt, calls, err, claimVars, ctxVars, hooks, lastLocks, dbVars,
                 held, worldVars>>

\* An outbound segment; a saga that opens with one claims its key in a unit of its own first.
WalkOutbound(r) ==
  /\ pc[r] = "walk" /\ seg[r] \in SegIx /\ ~IsTx(seg[r])
  /\ IF NeedsClaim(r) THEN EnterUnit(r, "claim") ELSE Goto(r, "call") /\ UNCHANGED unit
  /\ UNCHANGED <<seg, attempt, calls, err, claimVars, ctxVars, hooks, lastLocks, dbVars, held,
                 worldVars>>

\* After the last segment: the reply of a final transaction is ready; after a final outbound
\* finishAfterOutbound computes it and records it in a short unit of its own.
Finish(r) ==
  /\ pc[r] = "walk" /\ seg[r] = Len(Segments) + 1
  /\ IF ~IsTx(Len(Segments)) /\ claimed[r]
     THEN EnterUnit(r, "record")
     ELSE Goto(r, "done") /\ UNCHANGED unit
  /\ UNCHANGED <<seg, attempt, calls, err, claimVars, ctxVars, hooks, lastLocks, dbVars, held,
                 worldVars>>

\* definition.reply throws after a final outbound step.
ReplyFails(r) ==
  /\ "reply" \in Faults
  /\ pc[r] = "walk" /\ seg[r] = Len(Segments) + 1 /\ ~IsTx(Len(Segments))
  /\ Goto(r, "failed")
  /\ UNCHANGED <<seg, unit, attempt, calls, err, claimVars, ctxVars, hooks, lastLocks, dbVars,
                 held, worldVars>>

-----------------------------------------------------------------------------
(* SagaRunner.runOutbound: the external call, never inside a transaction. *)

OutboundOk(r) ==
  /\ pc[r] = "call"
  /\ sent' = [sent EXCEPT ![r][seg[r]] = @ + 1]
  /\ ctx' = [ctx EXCEPT ![r][seg[r]] = @ + 1]
  /\ seg' = [seg EXCEPT ![r] = @ + 1]
  /\ Goto(r, "walk")
  /\ UNCHANGED <<unit, attempt, calls, err, claimVars, ckpt, restorable, hooks, lastLocks, dbVars,
                 held, fired, reopened>>

\* The step throws: compensate runs when there is something to undo or a key to free.
OutboundFails(r) ==
  /\ "outbound" \in Faults
  /\ pc[r] = "call"
  /\ IF Compensates(r) \/ claimed[r]
     THEN EnterUnit(r, "compensate")
     ELSE Goto(r, "failed") /\ UNCHANGED unit
  /\ UNCHANGED <<seg, attempt, calls, err, claimVars, ctxVars, hooks, lastLocks, dbVars, held,
                 worldVars>>

-----------------------------------------------------------------------------
(* UnitOfWorkExecutor.execute and runAttempt. *)

\* transactions.run calls the body: RunState is saved, the attempt has no callbacks yet and the
\* body's first statement is next.
StartAttempt(r) ==
  /\ hooks' = [hooks EXCEPT ![r] = 0]
  /\ saved' = [saved EXCEPT ![r] = claimed[r]]
  /\ calls' = [calls EXCEPT ![r] = 1]
  /\ Goto(r, BodyStart(r, claimed[r]))

BeginUnit(r) ==
  /\ pc[r] = "unit"
  /\ ckpt' = [ckpt EXCEPT ![r] = ctx[r]]
  /\ restorable' = [restorable EXCEPT ![r] = Attempts > 1]
  /\ attempt' = [attempt EXCEPT ![r] = 1]
  /\ StartAttempt(r)
  /\ UNCHANGED <<seg, unit, err, claimed, replayOf, ctx, lastLocks, dbVars, held, worldVars>>

\* No unit committed and no outbound step ran yet.
BeforeAnyEffect(r) == unit[r] \in {"tx", "claim"} /\ seg[r] = 1

\* ctx cannot be snapshotted: the first unit ends the run, a later one goes on without retries.
CheckpointFails(r) ==
  /\ "checkpoint" \in Faults
  /\ Attempts > 1 /\ pc[r] = "unit"
  /\ IF BeforeAnyEffect(r)
     THEN Goto(r, "failed") /\ UNCHANGED <<attempt, calls, saved, restorable, hooks>>
     ELSE /\ restorable' = [restorable EXCEPT ![r] = FALSE]
          /\ attempt' = [attempt EXCEPT ![r] = 1]
          /\ StartAttempt(r)
  /\ UNCHANGED <<seg, unit, err, claimed, replayOf, ctx, ckpt, lastLocks, dbVars, held,
                 worldVars>>

\* claimOnce on a free key: the claim is this run's, tentatively.
ClaimNew(r) ==
  /\ pc[r] = "claim" /\ ~RowBusy(r)
  /\ ledger[KeyOf[r]].st = "free"
  /\ WriteLedger(r, "pending")
  /\ claimed' = [claimed EXCEPT ![r] = TRUE]
  /\ Goto(r, IF unit[r] = "claim" THEN "commit" ELSE "acquire")
  /\ UNCHANGED <<seg, unit, attempt, calls, err, saved, replayOf, ctxVars, hooks, lastLocks, db,
                 undone, held, worldVars>>

\* Faulty: a pending key is replayed as if its reply were there.
ClaimReplayEarly(r) ==
  /\ pc[r] = "claim" /\ ~RowBusy(r)
  /\ ledger[KeyOf[r]].st # "free"
  /\ replayOf' = [replayOf EXCEPT ![r] = ledger[KeyOf[r]].by]
  /\ Goto(r, "commit")
  /\ UNCHANGED <<seg, unit, attempt, calls, err, claimed, saved, ctxVars, hooks, lastLocks, dbVars,
                 held, worldVars>>

\* claimOnce on an applied key: the body returns at once and the run replays the stored reply.
ClaimReplay(r) ==
  /\ pc[r] = "claim" /\ ~RowBusy(r)
  /\ ledger[KeyOf[r]].st = "applied"
  /\ replayOf' = [replayOf EXCEPT ![r] = ledger[KeyOf[r]].by]
  /\ Goto(r, "commit")
  /\ UNCHANGED <<seg, unit, attempt, calls, err, claimed, saved, ctxVars, hooks, lastLocks, dbVars,
                 held, worldVars>>

\* The transaction is over, committed or not: its uncommitted row and its locks are gone.
EndTx(r) ==
  /\ row' = [row EXCEPT ![r] = "none"]
  /\ held' = HeldAfterTx(r)

\* claimOnce on a pending key: IdempotencyInProgressError, a kind that is never retried.
ClaimInProgress(r) ==
  /\ pc[r] = "claim" /\ ~RowBusy(r)
  /\ ledger[KeyOf[r]].st = "pending"
  /\ err' = [err EXCEPT ![r] = "fatal"]
  /\ Goto(r, "undo")
  /\ EndTx(r)
  /\ UNCHANGED <<seg, unit, attempt, calls, claimVars, ctxVars, hooks, lastLocks, ledger, db,
                 undone, worldVars>>

\* After a rolled-back call the port rejects, or calls `work` again within the same run().
AfterRollback(r) ==
  IF "reinvoke" \in Faults /\ calls[r] < MaxCalls THEN {"undo", "redo"} ELSE {"undo"}

\* A call fails and is rolled back; the error's kind is in retry.on or it is not.
CallFails(r) ==
  /\ \E e \in {"retryable", "fatal"} : err' = [err EXCEPT ![r] = e]
  /\ \E label \in AfterRollback(r) : Goto(r, label)
  /\ EndTx(r)

\* l is the next lock of r's unit in canonical order.
IsNextLock(l, r) ==
  /\ l \in Wanted(r) \ held[r]
  /\ \A m \in Wanted(r) \ held[r] : l <= m

FreeFor(l, r) == \A q \in Runs \ {r} : l \notin held[q]

\* acquire: one lock of the unit after the other, in canonical order.
AcquireNext(r) ==
  /\ pc[r] = "acquire"
  /\ \E l \in Locks :
       /\ IsNextLock(l, r) /\ FreeFor(l, r)
       /\ held' = [held EXCEPT ![r] = @ \cup {l}]
  /\ UNCHANGED <<ctlVars, claimVars, ctxVars, hooks, lastLocks, dbVars, worldVars>>

Acquired(r) ==
  /\ pc[r] = "acquire" /\ Wanted(r) \subseteq held[r]
  /\ Goto(r, "steps")
  /\ UNCHANGED <<seg, unit, attempt, calls, err, claimVars, ctxVars, hooks, lastLocks, dbVars,
                 held, worldVars>>

\* The lock port gives up waiting; 'lock-timeout' may or may not be in retry.on.
LockTimeout(r) ==
  /\ "lockTimeout" \in Faults
  /\ pc[r] = "acquire"
  /\ \E l \in Locks : IsNextLock(l, r) /\ ~FreeFor(l, r)
  /\ CallFails(r)
  /\ UNCHANGED <<seg, unit, attempt, calls, claimVars, ctxVars, hooks, lastLocks, ledger, db,
                 undone, worldVars>>

\* The steps of a transaction segment, each with an afterCommit callback, then the record of the
\* reply when the segment is the last one.
RunSteps(r) ==
  /\ pc[r] = "steps" /\ unit[r] = "tx"
  /\ ctx' = [ctx EXCEPT ![r][seg[r]] = @ + 1]
  /\ hooks' = [hooks EXCEPT ![r] = @ + 1]
  /\ IF IsLast(r) /\ claimed[r] THEN WriteLedger(r, "applied") ELSE UNCHANGED <<ledger, row>>
  /\ Goto(r, "commit")
  /\ UNCHANGED <<seg, unit, attempt, calls, err, claimVars, ckpt, restorable, lastLocks, db, undone,
                 held, worldVars>>

\* Faulty: the key is freed outside the compensation's transaction.
RunCompensationOutsideTx(r) ==
  /\ pc[r] = "steps" /\ unit[r] = "compensate"
  /\ ledger' = IF claimed[r] THEN [ledger EXCEPT ![KeyOf[r]] = Entry("free", r)] ELSE ledger
  /\ Goto(r, "commit")
  /\ UNCHANGED <<seg, unit, attempt, calls, err, claimVars, ctxVars, hooks, lastLocks, row, db,
                 undone, held, worldVars>>

\* The compensation's own step, then the release of the key in the same transaction.
RunCompensation(r) ==
  /\ pc[r] = "steps" /\ unit[r] = "compensate"
  /\ IF claimed[r] THEN WriteLedger(r, "free") ELSE UNCHANGED <<ledger, row>>
  /\ Goto(r, "commit")
  /\ UNCHANGED <<seg, unit, attempt, calls, err, claimVars, ctxVars, hooks, lastLocks, db, undone,
                 held, worldVars>>

RecordReply(r) ==
  /\ pc[r] = "record"
  /\ WriteLedger(r, "applied")
  /\ Goto(r, "commit")
  /\ UNCHANGED <<seg, unit, attempt, calls, err, claimVars, ctxVars, hooks, lastLocks, db, undone,
                 held, worldVars>>

\* A statement of the body throws.  A step may have changed ctx and registered callbacks first.
BodyFails(r) ==
  /\ "step" \in Faults
  /\ pc[r] \in BodyLabels
  /\ CallFails(r)
  /\ IF pc[r] = "steps" /\ unit[r] = "tx"
     THEN /\ ctx' = [ctx EXCEPT ![r][seg[r]] = @ + 1]
          /\ hooks' = [hooks EXCEPT ![r] = @ + 1]
     ELSE UNCHANGED <<ctx, hooks>>
  /\ UNCHANGED <<seg, unit, attempt, calls, claimVars, ckpt, restorable, lastLocks, ledger, db,
                 undone, worldVars>>

\* What the commit of the unit makes durable besides the ledger row.
ApplyUnit(r) ==
  /\ db' = IF unit[r] = "tx" /\ replayOf[r] = NoRun
           THEN [db EXCEPT ![r][seg[r]] = @ + 1] ELSE db
  /\ undone' = IF unit[r] = "compensate" /\ Compensates(r)
               THEN [undone EXCEPT ![r] = @ \cup {seg[r]}] ELSE undone

Commit(r) ==
  /\ pc[r] = "commit"
  /\ ledger' = Committed(r)
  /\ ApplyUnit(r)
  /\ EndTx(r)
  /\ Goto(r, "settle")
  /\ UNCHANGED <<seg, unit, attempt, calls, err, claimVars, ctxVars, hooks, lastLocks, worldVars>>

\* r's compensation freed the key in a ledger that no rollback reaches.
FreedForGood(r) == ~Transactional /\ unit[r] = "compensate" /\ claimed[r]

\* COMMIT fails and the transaction is rolled back.
CommitFails(r) ==
  /\ "commit" \in Faults
  /\ pc[r] = "commit"
  /\ CallFails(r)
  /\ reopened' = IF FreedForGood(r) THEN reopened \cup {r} ELSE reopened
  /\ UNCHANGED <<seg, unit, attempt, calls, claimVars, ctxVars, hooks, lastLocks, ledger, db,
                 undone, sent, fired>>

\* COMMIT took effect but its answer is lost: the error carries no concurrency kind.
CommitLost(r) ==
  /\ "lostCommit" \in Faults
  /\ pc[r] = "commit"
  /\ ledger' = Committed(r)
  /\ ApplyUnit(r)
  /\ EndTx(r)
  /\ err' = [err EXCEPT ![r] = "fatal"]
  /\ Goto(r, "undo")
  /\ UNCHANGED <<seg, unit, attempt, calls, claimVars, ctxVars, hooks, lastLocks, worldVars>>

-----------------------------------------------------------------------------
(* What a rolled-back call left outside the database. *)

ClaimedHereNever(r) == FALSE  \* faulty: a claim the rollback kept is not freed
ClaimedHereOrBefore(r) == claimed[r]  \* faulty: the claim of an earlier unit is freed too
ClaimedHere(r) == claimed[r] /\ ~saved[r]

\* Faulty: the claim flag survives the rollback.
UndoCallKeepsClaim(r) ==
  /\ replayOf' = [replayOf EXCEPT ![r] = NoRun]
  /\ hooks' = [hooks EXCEPT ![r] = 0]
  /\ UNCHANGED <<claimed, ledger>>

\* Faulty: the callbacks of the rolled-back call stay registered.
UndoCallKeepsHooks(r) ==
  /\ claimed' = [claimed EXCEPT ![r] = saved[r]]
  /\ replayOf' = [replayOf EXCEPT ![r] = NoRun]
  /\ UNCHANGED <<hooks, ledger>>

\* undoCall: the claim flags, the callbacks and, for a ledger the rollback could not reach, the
\* claim itself; a failing release is only reported.
UndoCall(r) ==
  /\ claimed' = [claimed EXCEPT ![r] = saved[r]]
  /\ replayOf' = [replayOf EXCEPT ![r] = NoRun]
  /\ hooks' = [hooks EXCEPT ![r] = 0]
  /\ \/ /\ ClaimedHere(r) /\ ~Transactional
        /\ ledger' = [ledger EXCEPT ![KeyOf[r]] = Entry("free", r)]
     \/ /\ ClaimedHere(r) /\ ~Transactional => "release" \in Faults
        /\ UNCHANGED ledger

\* The second call of `work` within one run(): undo the first, free its locks, restore ctx.
Redo(r) ==
  /\ pc[r] = "redo"
  /\ UndoCall(r)
  /\ held' = Released(r)
  /\ ctx' = IF restorable[r] THEN Restored(r) ELSE ctx
  /\ calls' = [calls EXCEPT ![r] = @ + 1]
  /\ err' = [err EXCEPT ![r] = "none"]
  /\ Goto(r, BodyStart(r, saved[r]))
  /\ UNCHANGED <<seg, unit, attempt, saved, ckpt, restorable, lastLocks, row, db, undone,
                 worldVars>>

\* The catch and finally blocks of runAttempt.
Undo(r) ==
  /\ pc[r] = "undo"
  /\ UndoCall(r)
  /\ held' = Released(r)
  /\ Goto(r, "judge")
  /\ UNCHANGED <<seg, unit, attempt, calls, err, saved, ctxVars, lastLocks, row, db, undone,
                 worldVars>>

\* Faulty: any error is retried.
RetriesAnyError(r) == restorable[r] /\ attempt[r] < Attempts

Retries(r) == err[r] = "retryable" /\ restorable[r] /\ attempt[r] < Attempts

\* The attempt loop: restore ctx and back off, or throw.
Judge(r) ==
  /\ pc[r] = "judge"
  /\ IF Retries(r)
     THEN ctx' = Restored(r) /\ Goto(r, "backoff")
     ELSE UNCHANGED ctx /\ Goto(r, "failed")
  /\ UNCHANGED <<seg, unit, attempt, calls, err, claimVars, ckpt, restorable, hooks, lastLocks,
                 dbVars, held, worldVars>>

\* Faulty: the attempt counter stands still.
RetryForever(r) ==
  /\ pc[r] = "backoff"
  /\ err' = [err EXCEPT ![r] = "none"]
  /\ StartAttempt(r)
  /\ UNCHANGED <<seg, unit, attempt, claimed, replayOf, ctxVars, lastLocks, dbVars, held,
                 worldVars>>

Retry(r) ==
  /\ pc[r] = "backoff"
  /\ attempt' = [attempt EXCEPT ![r] = @ + 1]
  /\ err' = [err EXCEPT ![r] = "none"]
  /\ StartAttempt(r)
  /\ UNCHANGED <<seg, unit, claimed, replayOf, ctxVars, lastLocks, dbVars, held, worldVars>>

\* Where the run goes on after a committed unit.
AfterUnit(r) ==
  IF replayOf[r] # NoRun THEN "replayed"
  ELSE CASE unit[r] = "tx" -> "walk"
         [] unit[r] = "claim" -> "call"
         [] unit[r] = "compensate" -> "failed"
         [] unit[r] = "record" -> "done"

\* run() resolved: locks are freed, the callbacks drained (a throwing one is only reported).
Settle(r) ==
  /\ pc[r] = "settle"
  /\ held' = Released(r)
  /\ fired' = [fired EXCEPT ![r] =
                 [i \in SegIx |-> IF i = seg[r] THEN @[i] + hooks[r] ELSE @[i]]]
  /\ hooks' = [hooks EXCEPT ![r] = 0]
  /\ seg' = IF AfterUnit(r) = "walk" THEN [seg EXCEPT ![r] = @ + 1] ELSE seg
  /\ Goto(r, AfterUnit(r))
  /\ UNCHANGED <<unit, attempt, calls, err, claimVars, ctxVars, lastLocks, dbVars, sent, reopened>>

\* The process of r dies: its open transaction, with its locks, is rolled back.
Crash(r) ==
  /\ "crash" \in Faults
  /\ pc[r] \notin Ended
  /\ Goto(r, "crashed")
  /\ EndTx(r)
  /\ UNCHANGED <<seg, unit, attempt, calls, err, claimVars, ctxVars, hooks, lastLocks, ledger, db,
                 undone, worldVars>>

-----------------------------------------------------------------------------
\* What the code itself does next for r, faults included.
Step(r) ==
  \/ WalkTransaction(r) \/ ResolveFails(r) \/ WalkOutbound(r) \/ Finish(r) \/ ReplyFails(r)
  \/ OutboundOk(r) \/ OutboundFails(r)
  \/ BeginUnit(r) \/ CheckpointFails(r)
  \/ ClaimNew(r) \/ ClaimReplay(r) \/ ClaimInProgress(r)
  \/ AcquireNext(r) \/ Acquired(r) \/ LockTimeout(r)
  \/ RunSteps(r) \/ RunCompensation(r) \/ RecordReply(r) \/ BodyFails(r)
  \/ Commit(r) \/ CommitFails(r) \/ CommitLost(r)
  \/ Redo(r) \/ Undo(r) \/ Judge(r) \/ Retry(r) \/ Settle(r)

\* Every run has returned, thrown or died.
AllEnded == (\A r \in Runs : pc[r] \in Ended) /\ UNCHANGED vars

Next == (\E r \in Runs : Step(r) \/ Crash(r)) \/ AllEnded

Spec == Init /\ [][Next]_vars

\* Every await settles: the event loop, the database and the lock port answer.
FairSpec == Spec /\ \A r \in Runs : WF_vars(Step(r))
-----------------------------------------------------------------------------
(* Properties. *)

PlaceTypes ==
  /\ pc \in [Runs -> Labels]
  /\ seg \in [Runs -> 1 .. Len(Segments) + 1]
  /\ unit \in [Runs -> Units]
  /\ attempt \in [Runs -> 1 .. Attempts]
  /\ calls \in [Runs -> 0 .. MaxCalls]
  /\ err \in [Runs -> {"none", "retryable", "fatal"}]

ClaimTypes ==
  /\ claimed \in [Runs -> BOOLEAN]
  /\ saved \in [Runs -> BOOLEAN]
  /\ replayOf \in [Runs -> Runs \cup {NoRun}]

CtxTypes ==
  /\ ctx \in [Runs -> Tally]
  /\ ckpt \in [Runs -> Tally]
  /\ restorable \in [Runs -> BOOLEAN]

DbTypes ==
  /\ ledger \in [Keys -> Entries]
  /\ row \in [Runs -> {"none", "free", "pending", "applied"}]
  /\ db \in [Runs -> Tally]
  /\ undone \in [Runs -> SUBSET SegIx]

LockTypes ==
  /\ lastLocks \in [Runs -> SUBSET Locks]
  /\ held \in [Runs -> SUBSET Locks]

WorldTypes ==
  /\ hooks \in [Runs -> Nat]
  /\ sent \in [Runs -> Tally]
  /\ fired \in [Runs -> Tally]
  /\ reopened \subseteq Runs

\* Every variable has its type; the attempts and calls of a unit stay within their limits.
TypeOK == PlaceTypes /\ ClaimTypes /\ CtxTypes /\ DbTypes /\ LockTypes /\ WorldTypes

SameKey(r, q) == r # q /\ Keyed(r) /\ KeyOf[r] = KeyOf[q]

\* A run does the saga's work: it executes steps of a unit or its outbound call is out.
Acting(r) == pc[r] \in {"steps", "call"}

\* A compensation of r's key freed it before its COMMIT, over a ledger that writes through, and the
\* COMMIT failed: from here on the ledger no longer says who has the key (compensate, line 334).
Reopened(r) == ~Transactional /\ \E s \in reopened : KeyOf[s] = KeyOf[r]

\* Two runs with one idempotency key never do the saga's work at the same time, whatever was rolled
\* back, retried or called again before (claimOnce, undoCall).  The exception is the one the code
\* makes: over a ledger that writes through, a compensation whose COMMIT failed has freed the key
\* all the same, and when the port calls it again it works beside whoever claimed meanwhile.
ActsAlone ==
  \A r, q \in Runs : SameKey(r, q) /\ Acting(r) /\ Acting(q) => Reopened(r)

\* r's claim is committed: the row of its key says so.
Ours(r) == ledger[KeyOf[r]] = Entry("pending", r)

\* r has claimed in its open transaction and nothing of it is committed yet.
Tentative(r) == claimed[r] /\ ~saved[r] /\ pc[r] \in {"acquire", "steps", "commit"}

\* r's claim was committed by an earlier unit and r goes on: between units, calling out, in a
\* unit that began with the claim, or before another attempt of one.
Durable(r) ==
  /\ claimed[r]
  /\ \/ pc[r] \in {"unit", "call"}
     \/ pc[r] = "walk" /\ (seg[r] \in SegIx \/ ~IsTx(Len(Segments)))
     \/ pc[r] = "settle" /\ (unit[r] = "claim" \/ (unit[r] = "tx" /\ ~IsLast(r)))
     \/ pc[r] \in BodyLabels \cup {"commit", "redo", "backoff"} /\ saved[r]
     \/ pc[r] \in {"undo", "judge"} /\ saved[r] /\ err[r] = "retryable"

\* A duplicate never takes or waits for a business lock: only the run that has the claim reaches
\* the locks, the steps and the outbound call ("Claim first", runUnitOfWork).
ClaimComesFirst ==
  \A r \in Runs : Keyed(r) /\ (pc[r] \in {"acquire", "steps", "call"} \/ held[r] # {}) => claimed[r]

\* The work of r stands: something of it is committed and not compensated.
Standing(r) == (\E i \in SegIx : db[r][i] > 0) /\ undone[r] = {}

\* Committed work of at most one run per key stands, in every interleaving of duplicates,
\* rollbacks, lost commits, compensations and crashes (every outbound step has a compensation).
EffectOncePerKey == \A r, q \in Runs : SameKey(r, q) => ~(Standing(r) /\ Standing(q))

Complete(r) ==
  \A i \in SegIx : IF IsTx(i) THEN db[r][i] = 1 ELSE sent[r][i] = 1

\* A run that answers, with its own reply or with a replayed one, answers for work that is
\* complete, committed and recorded under its key (recordIfClaimed, claimOnce).
AnswerIsGenuine ==
  \A r \in Runs :
    /\ pc[r] = "done" => Complete(r)
    /\ pc[r] = "done" /\ Keyed(r) => ledger[KeyOf[r]] = Entry("applied", r)
    /\ pc[r] = "replayed" =>
         Complete(replayOf[r]) /\ ledger[KeyOf[r]] = Entry("applied", replayOf[r])

\* A committed unit and a successful outbound step are never run again by the same run, though
\* COMMIT may fail after it took effect.
NeverRerun == \A r \in Runs, i \in SegIx : db[r][i] <= 1 /\ sent[r][i] <= 1

\* afterCommit callbacks run only for a commit, once per callback its successful call registered:
\* none of a rolled-back call survives into the next one.
HooksFollowCommits ==
  \A r \in Runs, i \in SegIx :
    /\ fired[r][i] <= db[r][i]
    /\ pc[r] = "done" /\ IsTx(i) => fired[r][i] = 1

\* What the steps of an attempt see: each earlier segment was applied, nothing of a failed call.
CleanCtx(r) == \A i \in SegIx : IF i < seg[r] THEN ctx[r][i] >= 1 ELSE ctx[r][i] = 0

\* Under a retry policy the steps of every attempt, and of every call a port re-invokes, start
\* from ctx as it was when the unit began (checkpointOf, restore).
RetriesSeeCleanCtx ==
  \A r \in Runs : pc[r] = "steps" /\ unit[r] = "tx" /\ restorable[r] => CleanCtx(r)

\* The transaction segment before an outbound step: its locks are the ones inherited.
TxBefore(i) == {j \in 1 .. i - 1 : IsTx(j) /\ \A m \in j + 1 .. i - 1 : ~IsTx(m)}

\* The locks declared for what r's transaction does now.
Protecting(r) ==
  IF unit[r] = "tx" THEN LocksOf[r][seg[r]]
  ELSE IF unit[r] = "compensate" /\ Compensates(r) /\ Segments[seg[r]].inherits
       THEN UNION {LocksOf[r][j] : j \in TxBefore(seg[r])}
       ELSE {}

\* Two units whose declared locks overlap never execute their steps at the same time; a
\* compensation counts with the locks of the segment it undoes.
LockedStepsExclude ==
  \A r, q \in Runs :
    r # q /\ pc[r] = "steps" /\ pc[q] = "steps" => Protecting(r) \cap Protecting(q) = {}

\* No lock outlives its attempt: a run between units, backing off or over holds none.
LocksFollowAttempts ==
  \A r \in Runs : pc[r] \in {"walk", "unit", "call", "judge", "backoff"} \cup Ended => held[r] = {}

\* A key is left in progress by a run that failed only when that run had made something durable
\* or called out, or its compensation failed (R10 of docs/SAGA_CONCURRENCY_SPEC.md).
StuckOnlyAfterEffect ==
  \A r \in Runs :
    pc[r] = "failed" /\ Keyed(r) /\ ledger[KeyOf[r]] = Entry("pending", r) =>
      Standing(r) \/ (\E i \in SegIx : sent[r][i] > 0) \/ unit[r] = "compensate"

\* Class comment of SagaRunner: "A failure after an outbound step has succeeded is not
\* compensated, because its external effect already happened".
NoCompensationAfterExternalEffect ==
  \A r \in Runs : undone[r] # {} => \A i \in SegIx : sent[r][i] = 0

\* Every run comes to an end: no run waits for ever for a key or for a lock of another run.
EveryRunEnds == \A r \in Runs : <>(pc[r] \in Ended)
-----------------------------------------------------------------------------
(* What a key promises, and how the runner's state implements it: the status and the holder are
   the ledger's, the standing work is the database's, the answer is how run() ended. *)
KeyStatus == [k \in Keys |-> IF ledger[k].st = "pending" THEN "taken" ELSE ledger[k].st]
KeyHolder == [k \in Keys |-> ledger[k].by]
KeyStanding == [k \in Keys |-> {r \in Runs : KeyOf[r] = k /\ Standing(r)}]
KeyAnswer ==
  [r \in Runs |-> CASE pc[r] = "done" -> "own"
                    [] pc[r] = "replayed" -> "replayed"
                    [] pc[r] \in {"failed", "crashed"} -> "error"
                    [] OTHER -> "none"]

Promise == INSTANCE IdempotentKey
             WITH status <- KeyStatus, holder <- KeyHolder, standing <- KeyStanding,
                  answer <- KeyAnswer

\* The concurrent runs of a keyed saga implement the promise of its key: an applied key stays
\* applied, a key is given back only with nothing standing, answers are those of applied work.
KeepsKeyPromise == Promise!KeySpec
=============================================================================
