------------------------ MODULE SagaEffects_proofs ------------------------
(***************************************************************************)
(* Theorems about what a run of a saga has done, on top of the invariants  *)
(* of SagaRunner_proofs: how far its work, its callbacks, its ctx and its  *)
(* locks are follows from where it is; and over a transactional ledger the *)
(* key of standing work names its run, so that the runs implement the      *)
(* promise of IdempotentKey.                                               *)
(***************************************************************************)
EXTENDS SagaRunner_proofs

-----------------------------------------------------------------------------
(* What one run has done. *)

\* The unit of r's segment took effect although r has not moved on: it is about to, or it ends.
Landed(r) ==
  \/ pc[r] \in Ended
  \/ pc[r] \in {"undo", "judge"} /\ err[r] = "fatal"
  \/ pc[r] = "settle" /\ unit[r] = "tx" /\ replayOf[r] = NoRun

\* Every earlier segment was done once, no later one was begun.
Progress(r) ==
  /\ \A i \in SegIx :
       /\ i < seg[r] => IF IsTx(i) THEN db[r][i] = 1 /\ sent[r][i] = 0
                        ELSE db[r][i] = 0 /\ sent[r][i] = 1
       /\ i = seg[r] => sent[r][i] = 0 /\ (db[r][i] = 0 \/ (db[r][i] = 1 /\ IsTx(i) /\ Landed(r)))
       /\ i > seg[r] => db[r][i] = 0 /\ sent[r][i] = 0
       /\ i = seg[r] /\ pc[r] = "settle" /\ unit[r] = "tx" /\ replayOf[r] = NoRun => db[r][i] = 1
  /\ pc[r] = "done" => seg[r] = N + 1
  /\ undone[r] # {} => unit[r] = "compensate"
  /\ unit[r] = "compensate" => pc[r] \in Exec \cup {"failed", "crashed"}

\* A run replays only from its claim on, until the call is rolled back.
Replays(r) ==
  replayOf[r] # NoRun =>
    /\ pc[r] \in {"commit", "settle", "undo", "redo", "replayed", "crashed"}
    /\ unit[r] \in {"tx", "claim"}

\* Callbacks are registered between the steps of a call and the end of its unit, and drained once.
Drained(r) ==
  /\ \A i \in SegIx : fired[r][i] = IF i < seg[r] /\ IsTx(i) THEN 1 ELSE 0
  /\ pc[r] \in {"walk", "unit", "call", "judge", "backoff"} \cup BodyLabels => hooks[r] = 0
  /\ pc[r] \in {"commit", "settle"} => hooks[r] = IF unit[r] = "tx" /\ replayOf[r] = NoRun THEN 1 ELSE 0

\* What a run keeps besides Of.
Done(q) == <<db[q], undone[q], sent[q], fired[q], hooks[q], ctx[q], ckpt[q], restorable[q], lastLocks[q]>>

\* No step of a run touches what another has done.
LEMMA OthersKeepDone ==
  ASSUME TypeOK, NEW r \in Runs, Step(r) \/ Crash(r), NEW q \in Runs, q # r
  PROVE  UNCHANGED Done(q)
<1> USE DEF TypeOK, PlaceTypes, CtxTypes, DbTypes, LockTypes, WorldTypes, Tally, Done
<1>1. CASE WalkTransaction(r)
  BY <1>1 DEF WalkTransaction, EnterUnit, Goto, ctlVars, claimVars, ctxVars, dbVars, worldVars
<1>2. CASE ResolveFails(r)
  BY <1>2 DEF ResolveFails, Goto, ctlVars, claimVars, ctxVars, dbVars, worldVars
<1>3. CASE WalkOutbound(r)
  BY <1>3 DEF WalkOutbound, EnterUnit, Goto, ctlVars, claimVars, ctxVars, dbVars, worldVars
<1>4. CASE Finish(r)
  BY <1>4 DEF Finish, EnterUnit, Goto, ctlVars, claimVars, ctxVars, dbVars, worldVars
<1>5. CASE ReplyFails(r)
  BY <1>5 DEF ReplyFails, Goto, ctlVars, claimVars, ctxVars, dbVars, worldVars
<1>6. CASE OutboundOk(r)
  BY <1>6 DEF OutboundOk, Goto, ctlVars, claimVars, ctxVars, dbVars, worldVars
<1>7. CASE OutboundFails(r)
  BY <1>7 DEF OutboundFails, EnterUnit, Goto, ctlVars, claimVars, ctxVars, dbVars, worldVars
<1>8. CASE BeginUnit(r)
  BY <1>8 DEF BeginUnit, StartAttempt, Goto, ctlVars, claimVars, ctxVars, dbVars, worldVars
<1>9. CASE CheckpointFails(r)
  BY <1>9 DEF CheckpointFails, StartAttempt, Goto, ctlVars, claimVars, ctxVars, dbVars, worldVars
<1>10. CASE ClaimNew(r)
  BY <1>10 DEF ClaimNew, Goto, ctlVars, claimVars, ctxVars, dbVars, worldVars
<1>11. CASE ClaimReplay(r)
  BY <1>11 DEF ClaimReplay, Goto, ctlVars, claimVars, ctxVars, dbVars, worldVars
<1>12. CASE ClaimInProgress(r)
  BY <1>12 DEF ClaimInProgress, Goto, ctlVars, claimVars, ctxVars, dbVars, worldVars
<1>13. CASE AcquireNext(r)
  BY <1>13 DEF AcquireNext, ctlVars, claimVars, ctxVars, dbVars, worldVars
<1>14. CASE Acquired(r)
  BY <1>14 DEF Acquired, Goto, ctlVars, claimVars, ctxVars, dbVars, worldVars
<1>15. CASE LockTimeout(r)
  BY <1>15 DEF LockTimeout, CallFails, Goto, ctlVars, claimVars, ctxVars, dbVars, worldVars
<1>16. CASE RunSteps(r)
  BY <1>16 DEF RunSteps, Goto, ctlVars, claimVars, ctxVars, dbVars, worldVars
<1>17. CASE RunCompensation(r)
  BY <1>17 DEF RunCompensation, Goto, ctlVars, claimVars, ctxVars, dbVars, worldVars
<1>18. CASE RecordReply(r)
  BY <1>18 DEF RecordReply, Goto, ctlVars, claimVars, ctxVars, dbVars, worldVars
<1>19. CASE BodyFails(r)
  BY <1>19 DEF BodyFails, CallFails, Goto, ctlVars, claimVars, ctxVars, dbVars, worldVars
<1>20. CASE Commit(r)
  BY <1>20 DEF Commit, Goto, ApplyUnit, ctlVars, claimVars, ctxVars, dbVars, worldVars
<1>21. CASE CommitFails(r)
  BY <1>21 DEF CommitFails, CallFails, Goto, ctlVars, claimVars, ctxVars, dbVars, worldVars
<1>22. CASE CommitLost(r)
  BY <1>22 DEF CommitLost, Goto, ApplyUnit, ctlVars, claimVars, ctxVars, dbVars, worldVars
<1>23. CASE Redo(r)
  BY <1>23 DEF Redo, Goto, UndoCall, Restored, ctlVars, claimVars, ctxVars, dbVars, worldVars
<1>24. CASE Undo(r)
  BY <1>24 DEF Undo, Goto, UndoCall, ctlVars, claimVars, ctxVars, dbVars, worldVars
<1>25. CASE Judge(r)
  BY <1>25 DEF Judge, Goto, Restored, ctlVars, claimVars, ctxVars, dbVars, worldVars
<1>26. CASE Retry(r)
  BY <1>26 DEF Retry, StartAttempt, Goto, ctlVars, claimVars, ctxVars, dbVars, worldVars
<1>27. CASE Settle(r)
  BY <1>27 DEF Settle, Goto, ctlVars, claimVars, ctxVars, dbVars, worldVars
<1>28. CASE Crash(r)
  BY <1>28 DEF Crash, Goto, ctlVars, claimVars, ctxVars, dbVars, worldVars
<1> QED BY <1>1, <1>2, <1>3, <1>4, <1>5, <1>6, <1>7, <1>8, <1>9, <1>10, <1>11, <1>12, <1>13, <1>14,
      <1>15, <1>16, <1>17, <1>18, <1>19, <1>20, <1>21, <1>22, <1>23, <1>24, <1>25, <1>26, <1>27,
      <1>28 DEF Step

\* A step keeps the count of what its run did.
LEMMA ProgressStep ==
  ASSUME TypeOK, ControlInv, MemoryInv, NEW r \in Runs, Progress(r), Replays(r), Step(r) \/ Crash(r)
  PROVE  Progress(r)' /\ Replays(r)'
<1>0. Control(r) /\ (pc[r] = "claim" => unit[r] \in {"tx", "claim"})
  BY DEF ControlInv, MemoryInv, Memory
<1> USE <1>0, SegmentFacts DEF TypeOK, PlaceTypes, ClaimTypes, DbTypes, WorldTypes, Tally, Control, Exec,
   BodyLabels, Ended, Progress, Landed, Replays
<1>1. CASE WalkTransaction(r)
  BY <1>1 DEF WalkTransaction, EnterUnit, Goto, ctlVars, claimVars, ctxVars, dbVars, worldVars,
     IsTx
<1>2. CASE ResolveFails(r)
  BY <1>2 DEF ResolveFails, Goto, ctlVars, claimVars, ctxVars, dbVars, worldVars, IsTx
<1>3. CASE WalkOutbound(r)
  BY <1>3 DEF WalkOutbound, EnterUnit, Goto, NeedsClaim, ctlVars, claimVars, ctxVars, dbVars,
     worldVars, IsTx
<1>4. CASE Finish(r)
  BY <1>4 DEF Finish, EnterUnit, Goto, ctlVars, claimVars, ctxVars, dbVars, worldVars, IsTx
<1>5. CASE ReplyFails(r)
  BY <1>5 DEF ReplyFails, Goto, ctlVars, claimVars, ctxVars, dbVars, worldVars, IsTx
<1>6. CASE OutboundOk(r)
  BY <1>6 DEF OutboundOk, Goto, ctlVars, claimVars, ctxVars, dbVars, worldVars, IsTx
<1>7. CASE OutboundFails(r)
  BY <1>7 DEF OutboundFails, EnterUnit, Goto, ctlVars, claimVars, ctxVars, dbVars, worldVars,
     IsTx
<1>8. CASE BeginUnit(r)
  BY <1>8 DEF BeginUnit, StartAttempt, BodyStart, Goto, ctlVars, claimVars, ctxVars, dbVars,
     worldVars, IsTx
<1>9. CASE CheckpointFails(r)
  BY <1>9 DEF CheckpointFails, StartAttempt, BodyStart, BeforeAnyEffect, Goto, ctlVars,
     claimVars, ctxVars, dbVars, worldVars, IsTx
<1>10. CASE ClaimNew(r)
  BY <1>10 DEF ClaimNew, Goto, ctlVars, claimVars, ctxVars, dbVars, worldVars, IsTx
<1>11. CASE ClaimReplay(r)
  BY <1>11 DEF ClaimReplay, Goto, ctlVars, claimVars, ctxVars, dbVars, worldVars, IsTx
<1>12. CASE ClaimInProgress(r)
  BY <1>12 DEF ClaimInProgress, Goto, ctlVars, claimVars, ctxVars, dbVars, worldVars, IsTx
<1>13. CASE AcquireNext(r)
  BY <1>13 DEF AcquireNext, ctlVars, claimVars, ctxVars, dbVars, worldVars, IsTx
<1>14. CASE Acquired(r)
  BY <1>14 DEF Acquired, Goto, ctlVars, claimVars, ctxVars, dbVars, worldVars, IsTx
<1>15. CASE LockTimeout(r)
  BY <1>15 DEF LockTimeout, CallFails, AfterRollback, Goto, ctlVars, claimVars, ctxVars, dbVars,
     worldVars, IsTx
<1>16. CASE RunSteps(r)
  BY <1>16 DEF RunSteps, Goto, ctlVars, claimVars, ctxVars, dbVars, worldVars, IsTx
<1>17. CASE RunCompensation(r)
  BY <1>17 DEF RunCompensation, Goto, ctlVars, claimVars, ctxVars, dbVars, worldVars, IsTx
<1>18. CASE RecordReply(r)
  BY <1>18 DEF RecordReply, Goto, ctlVars, claimVars, ctxVars, dbVars, worldVars, IsTx
<1>19. CASE BodyFails(r)
  BY <1>19 DEF BodyFails, CallFails, AfterRollback, Goto, ctlVars, claimVars, ctxVars, dbVars,
     worldVars, IsTx
<1>20. CASE Commit(r)
  BY <1>20 DEF Commit, Goto, ApplyUnit, ctlVars, claimVars, ctxVars, dbVars, worldVars, IsTx
<1>21. CASE CommitFails(r)
  BY <1>21 DEF CommitFails, CallFails, AfterRollback, Goto, ctlVars, claimVars, ctxVars, dbVars,
     worldVars, IsTx
<1>22. CASE CommitLost(r)
  BY <1>22 DEF CommitLost, Goto, ApplyUnit, ctlVars, claimVars, ctxVars, dbVars, worldVars, IsTx
<1>23. CASE Redo(r)
  BY <1>23 DEF Redo, BodyStart, Goto, UndoCall, ctlVars, claimVars, ctxVars, dbVars, worldVars,
     IsTx
<1>24. CASE Undo(r)
  BY <1>24 DEF Undo, Goto, UndoCall, ctlVars, claimVars, ctxVars, dbVars, worldVars, IsTx
<1>25. CASE Judge(r)
  BY <1>25 DEF Judge, Goto, Retries, ctlVars, claimVars, ctxVars, dbVars, worldVars, IsTx
<1>26. CASE Retry(r)
  BY <1>26 DEF Retry, StartAttempt, BodyStart, Goto, ctlVars, claimVars, ctxVars, dbVars,
     worldVars, IsTx
<1>27. CASE Settle(r)
  <2>1. /\ UNCHANGED <<unit, attempt, calls, err, claimVars, dbVars, sent>>
        /\ pc[r] = "settle" /\ pc' = [pc EXCEPT ![r] = AfterUnit(r)]
        /\ seg' = IF AfterUnit(r) = "walk" THEN [seg EXCEPT ![r] = @ + 1] ELSE seg
    BY <1>27 DEF Settle, Goto
  <2>2. UNCHANGED <<db, undone, sent, unit, replayOf, err>>
    BY <2>1 DEF claimVars, dbVars
  <2>3. CASE unit[r] = "tx" /\ replayOf[r] = NoRun
    <3>1. AfterUnit(r) = "walk"
      BY <2>3 DEF AfterUnit
    <3>2. pc'[r] = "walk" /\ seg'[r] = seg[r] + 1
      BY <2>1, <3>1
    <3> QED BY <2>1, <2>2, <2>3, <3>2 DEF IsTx
  <2>4. CASE ~(unit[r] = "tx" /\ replayOf[r] = NoRun)
    <3>1. AfterUnit(r) = IF replayOf[r] # NoRun THEN "replayed"
                         ELSE IF unit[r] = "claim" THEN "call"
                         ELSE IF unit[r] = "compensate" THEN "failed" ELSE "done"
      BY <2>1, <2>4 DEF AfterUnit
    <3>2. pc'[r] = AfterUnit(r) /\ seg' = seg
      BY <2>1, <3>1
    <3> QED BY <2>1, <2>2, <2>4, <3>1, <3>2 DEF IsTx
  <2> QED BY <2>3, <2>4
<1>28. CASE Crash(r)
  BY <1>28 DEF Crash, Goto, ctlVars, claimVars, ctxVars, dbVars, worldVars, IsTx
<1> QED BY <1>1, <1>2, <1>3, <1>4, <1>5, <1>6, <1>7, <1>8, <1>9, <1>10, <1>11, <1>12, <1>13, <1>14,
      <1>15, <1>16, <1>17, <1>18, <1>19, <1>20, <1>21, <1>22, <1>23, <1>24, <1>25, <1>26, <1>27,
      <1>28 DEF Step

\* A replay names the run whose reply the key has.
LEMMA ReplayNamed ==
  ASSUME TypeOK, ControlInv, NEW r \in Runs, ClaimReplay(r)
  PROVE  replayOf'[r] # NoRun
<1>1. ledger[KeyOf[r]] \in Entries /\ ledger[KeyOf[r]].st = "applied"
  BY KeyType DEF ClaimReplay, TypeOK, DbTypes, ControlInv, Control, Keyed
<1> QED BY <1>1, AppliedBy, RunsAssumption DEF ClaimReplay, TypeOK, ClaimTypes

\* A step keeps the count of its run's callbacks.
LEMMA DrainedStep ==
  ASSUME TypeOK, ControlInv, NEW r \in Runs, Replays(r), Drained(r), Step(r) \/ Crash(r)
  PROVE  Drained(r)'
<1>0. Control(r)
  BY DEF ControlInv
<1> USE <1>0, SegmentFacts DEF TypeOK, PlaceTypes, ClaimTypes, WorldTypes, Tally, Control, Exec,
   BodyLabels, Replays, Drained
<1>1. CASE WalkTransaction(r)
  BY <1>1 DEF WalkTransaction, EnterUnit, Goto, ctlVars, claimVars, ctxVars, dbVars, worldVars,
     IsTx
<1>2. CASE ResolveFails(r)
  BY <1>2 DEF ResolveFails, Goto, ctlVars, claimVars, ctxVars, dbVars, worldVars, IsTx
<1>3. CASE WalkOutbound(r)
  BY <1>3 DEF WalkOutbound, EnterUnit, Goto, NeedsClaim, ctlVars, claimVars, ctxVars, dbVars,
     worldVars, IsTx
<1>4. CASE Finish(r)
  BY <1>4 DEF Finish, EnterUnit, Goto, ctlVars, claimVars, ctxVars, dbVars, worldVars, IsTx
<1>5. CASE ReplyFails(r)
  BY <1>5 DEF ReplyFails, Goto, ctlVars, claimVars, ctxVars, dbVars, worldVars, IsTx
<1>6. CASE OutboundOk(r)
  BY <1>6 DEF OutboundOk, Goto, ctlVars, claimVars, ctxVars, dbVars, worldVars, IsTx
<1>7. CASE OutboundFails(r)
  BY <1>7 DEF OutboundFails, EnterUnit, Goto, ctlVars, claimVars, ctxVars, dbVars, worldVars,
     IsTx
<1>8. CASE BeginUnit(r)
  BY <1>8 DEF BeginUnit, StartAttempt, BodyStart, Goto, ctlVars, claimVars, ctxVars, dbVars,
     worldVars, IsTx
<1>9. CASE CheckpointFails(r)
  BY <1>9 DEF CheckpointFails, StartAttempt, BodyStart, BeforeAnyEffect, Goto, ctlVars,
     claimVars, ctxVars, dbVars, worldVars, IsTx
<1>10. CASE ClaimNew(r)
  BY <1>10 DEF ClaimNew, Goto, ctlVars, claimVars, ctxVars, dbVars, worldVars, IsTx
<1>11. CASE ClaimReplay(r)
  BY <1>11, ReplayNamed DEF ClaimReplay, Goto, ctlVars, claimVars, ctxVars, dbVars, worldVars, IsTx
<1>12. CASE ClaimInProgress(r)
  BY <1>12 DEF ClaimInProgress, Goto, ctlVars, claimVars, ctxVars, dbVars, worldVars, IsTx
<1>13. CASE AcquireNext(r)
  BY <1>13 DEF AcquireNext, ctlVars, claimVars, ctxVars, dbVars, worldVars, IsTx
<1>14. CASE Acquired(r)
  BY <1>14 DEF Acquired, Goto, ctlVars, claimVars, ctxVars, dbVars, worldVars, IsTx
<1>15. CASE LockTimeout(r)
  BY <1>15 DEF LockTimeout, CallFails, AfterRollback, Goto, ctlVars, claimVars, ctxVars, dbVars,
     worldVars, IsTx
<1>16. CASE RunSteps(r)
  BY <1>16 DEF RunSteps, Goto, ctlVars, claimVars, ctxVars, dbVars, worldVars, IsTx
<1>17. CASE RunCompensation(r)
  BY <1>17 DEF RunCompensation, Goto, ctlVars, claimVars, ctxVars, dbVars, worldVars, IsTx
<1>18. CASE RecordReply(r)
  BY <1>18 DEF RecordReply, Goto, ctlVars, claimVars, ctxVars, dbVars, worldVars, IsTx
<1>19. CASE BodyFails(r)
  BY <1>19 DEF BodyFails, CallFails, AfterRollback, Goto, ctlVars, claimVars, ctxVars, dbVars,
     worldVars, IsTx
<1>20. CASE Commit(r)
  BY <1>20 DEF Commit, Goto, ctlVars, claimVars, ctxVars, dbVars, worldVars, IsTx
<1>21. CASE CommitFails(r)
  BY <1>21 DEF CommitFails, CallFails, AfterRollback, Goto, ctlVars, claimVars, ctxVars, dbVars,
     worldVars, IsTx
<1>22. CASE CommitLost(r)
  BY <1>22 DEF CommitLost, Goto, ctlVars, claimVars, ctxVars, dbVars, worldVars, IsTx
<1>23. CASE Redo(r)
  BY <1>23 DEF Redo, BodyStart, Goto, UndoCall, ctlVars, claimVars, ctxVars, dbVars, worldVars,
     IsTx
<1>24. CASE Undo(r)
  BY <1>24 DEF Undo, Goto, UndoCall, ctlVars, claimVars, ctxVars, dbVars, worldVars, IsTx
<1>25. CASE Judge(r)
  BY <1>25 DEF Judge, Goto, Retries, ctlVars, claimVars, ctxVars, dbVars, worldVars, IsTx
<1>26. CASE Retry(r)
  BY <1>26 DEF Retry, StartAttempt, BodyStart, Goto, ctlVars, claimVars, ctxVars, dbVars,
     worldVars, IsTx
<1>27. CASE Settle(r)
  BY <1>27 DEF Settle, AfterUnit, Goto, ctlVars, claimVars, ctxVars, dbVars, worldVars, IsTx
<1>28. CASE Crash(r)
  BY <1>28 DEF Crash, Goto, ctlVars, claimVars, ctxVars, dbVars, worldVars, IsTx
<1> QED BY <1>1, <1>2, <1>3, <1>4, <1>5, <1>6, <1>7, <1>8, <1>9, <1>10, <1>11, <1>12, <1>13, <1>14,
      <1>15, <1>16, <1>17, <1>18, <1>19, <1>20, <1>21, <1>22, <1>23, <1>24, <1>25, <1>26, <1>27,
      <1>28 DEF Step

-----------------------------------------------------------------------------
(* What a run remembers for its steps: ctx, its checkpoint, its locks. *)

\* Every earlier segment was applied, this one and the later ones were not.
Clean(r, tally) == \A i \in SegIx : IF i < seg[r] THEN tally[i] >= 1 ELSE tally[i] = 0

\* Only the steps of the current segment are ever in doubt, and a unit that may be retried has a
\* clean checkpoint to start from.
Remembers(r) ==
  /\ \A i \in SegIx : (i < seg[r] => ctx[r][i] >= 1) /\ (i > seg[r] => ctx[r][i] = 0)
  /\ pc[r] \in {"walk", "unit", "call", "backoff"} => Clean(r, ctx[r])
  /\ pc[r] \in Exec /\ unit[r] # "tx" => Clean(r, ctx[r])
  /\ pc[r] \in BodyLabels /\ restorable[r] => Clean(r, ctx[r])
  /\ pc[r] \in Exec \ {"unit"} /\ restorable[r] => Clean(r, ckpt[r])
  /\ pc[r] = "backoff" => restorable[r]
  /\ pc[r] \in {"commit", "settle"} /\ unit[r] = "tx" /\ replayOf[r] = NoRun =>
       \A i \in SegIx : i = seg[r] => ctx[r][i] >= 1

\* A step leaves ctx as its segment should find it.
LEMMA RemembersStep ==
  ASSUME TypeOK, ControlInv, NEW r \in Runs, Remembers(r), Step(r) \/ Crash(r)
  PROVE  Remembers(r)'
<1>0. Control(r)
  BY DEF ControlInv
<1> USE <1>0, SegmentFacts DEF TypeOK, PlaceTypes, ClaimTypes, CtxTypes, Tally, Control, Exec,
   BodyLabels, Remembers, Clean
<1>1. CASE WalkTransaction(r)
  BY <1>1 DEF WalkTransaction, EnterUnit, Goto, ctlVars, claimVars, ctxVars, dbVars, worldVars,
     IsTx
<1>2. CASE ResolveFails(r)
  BY <1>2 DEF ResolveFails, Goto, ctlVars, claimVars, ctxVars, dbVars, worldVars, IsTx
<1>3. CASE WalkOutbound(r)
  BY <1>3 DEF WalkOutbound, EnterUnit, Goto, NeedsClaim, ctlVars, claimVars, ctxVars, dbVars,
     worldVars, IsTx
<1>4. CASE Finish(r)
  BY <1>4 DEF Finish, EnterUnit, Goto, ctlVars, claimVars, ctxVars, dbVars, worldVars, IsTx
<1>5. CASE ReplyFails(r)
  BY <1>5 DEF ReplyFails, Goto, ctlVars, claimVars, ctxVars, dbVars, worldVars, IsTx
<1>6. CASE OutboundOk(r)
  BY <1>6 DEF OutboundOk, Goto, ctlVars, claimVars, ctxVars, dbVars, worldVars, IsTx
<1>7. CASE OutboundFails(r)
  BY <1>7 DEF OutboundFails, EnterUnit, Goto, ctlVars, claimVars, ctxVars, dbVars, worldVars,
     IsTx
<1>8. CASE BeginUnit(r)
  BY <1>8 DEF BeginUnit, StartAttempt, BodyStart, Goto, ctlVars, claimVars, ctxVars, dbVars,
     worldVars, IsTx
<1>9. CASE CheckpointFails(r)
  BY <1>9 DEF CheckpointFails, StartAttempt, BodyStart, BeforeAnyEffect, Goto, ctlVars,
     claimVars, ctxVars, dbVars, worldVars, IsTx
<1>10. CASE ClaimNew(r)
  BY <1>10 DEF ClaimNew, Goto, ctlVars, claimVars, ctxVars, dbVars, worldVars, IsTx
<1>11. CASE ClaimReplay(r)
  BY <1>11, ReplayNamed DEF ClaimReplay, Goto, ctlVars, claimVars, ctxVars, dbVars, worldVars, IsTx
<1>12. CASE ClaimInProgress(r)
  BY <1>12 DEF ClaimInProgress, Goto, ctlVars, claimVars, ctxVars, dbVars, worldVars, IsTx
<1>13. CASE AcquireNext(r)
  BY <1>13 DEF AcquireNext, ctlVars, claimVars, ctxVars, dbVars, worldVars, IsTx
<1>14. CASE Acquired(r)
  BY <1>14 DEF Acquired, Goto, ctlVars, claimVars, ctxVars, dbVars, worldVars, IsTx
<1>15. CASE LockTimeout(r)
  BY <1>15 DEF LockTimeout, CallFails, AfterRollback, Goto, ctlVars, claimVars, ctxVars, dbVars,
     worldVars, IsTx
<1>16. CASE RunSteps(r)
  BY <1>16 DEF RunSteps, Goto, ctlVars, claimVars, ctxVars, dbVars, worldVars, IsTx
<1>17. CASE RunCompensation(r)
  BY <1>17 DEF RunCompensation, Goto, ctlVars, claimVars, ctxVars, dbVars, worldVars, IsTx
<1>18. CASE RecordReply(r)
  BY <1>18 DEF RecordReply, Goto, ctlVars, claimVars, ctxVars, dbVars, worldVars, IsTx
<1>19. CASE BodyFails(r)
  <2>1. /\ UNCHANGED <<seg, unit, replayOf, ckpt, restorable>>
        /\ pc[r] \in BodyLabels /\ pc'[r] \in {"undo", "redo"}
    BY <1>19 DEF BodyFails, CallFails, AfterRollback, Goto, claimVars
  <2>2. CASE pc[r] = "steps" /\ unit[r] = "tx"
    <3>1. ctx' = [ctx EXCEPT ![r][seg[r]] = @ + 1]
      BY <1>19, <2>2 DEF BodyFails
    <3> QED BY <2>1, <2>2, <3>1
  <2>3. CASE ~(pc[r] = "steps" /\ unit[r] = "tx")
    <3>1. ctx' = ctx
      BY <1>19, <2>3 DEF BodyFails
    <3> QED BY <2>1, <2>3, <3>1
  <2> QED BY <2>2, <2>3
<1>20. CASE Commit(r)
  BY <1>20 DEF Commit, Goto, ctlVars, claimVars, ctxVars, dbVars, worldVars, IsTx
<1>21. CASE CommitFails(r)
  BY <1>21 DEF CommitFails, CallFails, AfterRollback, Goto, ctlVars, claimVars, ctxVars, dbVars,
     worldVars, IsTx
<1>22. CASE CommitLost(r)
  BY <1>22 DEF CommitLost, Goto, ctlVars, claimVars, ctxVars, dbVars, worldVars, IsTx
<1>23. CASE Redo(r)
  <2>1. /\ pc[r] = "redo" /\ pc'[r] \in {"record", "claim", "acquire"}
        /\ UNCHANGED <<seg, unit, ckpt, restorable>>
        /\ ctx' = IF restorable[r] THEN [ctx EXCEPT ![r] = ckpt[r]] ELSE ctx
    BY <1>23 DEF Redo, BodyStart, Goto, Restored
  <2> QED BY <2>1
<1>24. CASE Undo(r)
  BY <1>24 DEF Undo, Goto, UndoCall, ctlVars, claimVars, ctxVars, dbVars, worldVars, IsTx
<1>25. CASE Judge(r)
  BY <1>25 DEF Judge, Goto, Retries, Restored, ctlVars, claimVars, ctxVars, dbVars, worldVars,
     IsTx
<1>26. CASE Retry(r)
  BY <1>26 DEF Retry, StartAttempt, BodyStart, Goto, ctlVars, claimVars, ctxVars, dbVars,
     worldVars, IsTx
<1>27. CASE Settle(r)
  BY <1>27 DEF Settle, AfterUnit, Goto, ctlVars, claimVars, ctxVars, dbVars, worldVars, IsTx
<1>28. CASE Crash(r)
  BY <1>28 DEF Crash, Goto, ctlVars, claimVars, ctxVars, dbVars, worldVars, IsTx
<1> QED BY <1>1, <1>2, <1>3, <1>4, <1>5, <1>6, <1>7, <1>8, <1>9, <1>10, <1>11, <1>12, <1>13, <1>14,
      <1>15, <1>16, <1>17, <1>18, <1>19, <1>20, <1>21, <1>22, <1>23, <1>24, <1>25, <1>26, <1>27,
      <1>28 DEF Step

\* The transaction whose locks r has: the one it executes, else the last one before.
LastTx(r) ==
  IF pc[r] \in Exec /\ unit[r] = "tx" THEN {j \in SegIx : j = seg[r]} ELSE TxBefore(seg[r])

\* A run that goes on knows the locks of its last transaction, and a unit that runs its steps holds
\* all the locks it wants.
Locking(r) ==
  /\ pc[r] \notin Ended => lastLocks[r] = UNION {LocksOf[r][j] : j \in LastTx(r)}
  /\ pc[r] = "steps" => Wanted(r) \subseteq held[r]

\* The last transaction before a segment.
LEMMA TxBeforeNext ==
  ASSUME NEW i \in SegIx
  PROVE  /\ IsTx(i) => TxBefore(i + 1) = {i}
         /\ ~IsTx(i) => TxBefore(i + 1) = TxBefore(i)
  BY SegmentFacts DEF TxBefore

\* A step keeps the locks of the last transaction.
LEMMA LockingStep ==
  ASSUME TypeOK, ControlInv, NEW r \in Runs, Locking(r), Step(r) \/ Crash(r)
  PROVE  Locking(r)'
<1>0. Control(r)
  BY DEF ControlInv
<1> USE <1>0, SegmentFacts DEF TypeOK, PlaceTypes, LockTypes, Control, Exec, BodyLabels, Ended, Locking,
   LastTx, Wanted, Compensates
<1>1. CASE WalkTransaction(r)
  BY <1>1 DEF WalkTransaction, EnterUnit, Goto, ctlVars, claimVars, ctxVars, dbVars, worldVars,
     IsTx
<1>2. CASE ResolveFails(r)
  BY <1>2 DEF ResolveFails, Goto, ctlVars, claimVars, ctxVars, dbVars, worldVars, IsTx
<1>3. CASE WalkOutbound(r)
  BY <1>3 DEF WalkOutbound, EnterUnit, Goto, NeedsClaim, ctlVars, claimVars, ctxVars, dbVars,
     worldVars, IsTx
<1>4. CASE Finish(r)
  BY <1>4 DEF Finish, EnterUnit, Goto, ctlVars, claimVars, ctxVars, dbVars, worldVars, IsTx
<1>5. CASE ReplyFails(r)
  BY <1>5 DEF ReplyFails, Goto, ctlVars, claimVars, ctxVars, dbVars, worldVars, IsTx
<1>6. CASE OutboundOk(r)
  <2>1. /\ pc[r] = "call" /\ pc'[r] = "walk" /\ seg'[r] = seg[r] + 1 /\ UNCHANGED <<unit, lastLocks, held>>
    BY <1>6 DEF OutboundOk, Goto
  <2>2. TxBefore(seg[r] + 1) = TxBefore(seg[r])
    BY <2>1, TxBeforeNext
  <2> QED BY <2>1, <2>2
<1>7. CASE OutboundFails(r)
  BY <1>7 DEF OutboundFails, EnterUnit, Goto, ctlVars, claimVars, ctxVars, dbVars, worldVars,
     IsTx
<1>8. CASE BeginUnit(r)
  BY <1>8 DEF BeginUnit, StartAttempt, BodyStart, Goto, ctlVars, claimVars, ctxVars, dbVars,
     worldVars, IsTx
<1>9. CASE CheckpointFails(r)
  BY <1>9 DEF CheckpointFails, StartAttempt, BodyStart, BeforeAnyEffect, Goto, ctlVars,
     claimVars, ctxVars, dbVars, worldVars, IsTx
<1>10. CASE ClaimNew(r)
  BY <1>10 DEF ClaimNew, Goto, ctlVars, claimVars, ctxVars, dbVars, worldVars, IsTx
<1>11. CASE ClaimReplay(r)
  BY <1>11 DEF ClaimReplay, Goto, ctlVars, claimVars, ctxVars, dbVars, worldVars, IsTx
<1>12. CASE ClaimInProgress(r)
  BY <1>12 DEF ClaimInProgress, Goto, HeldAfterTx, ctlVars, claimVars, ctxVars, dbVars,
     worldVars, IsTx
<1>13. CASE AcquireNext(r)
  BY <1>13 DEF AcquireNext, ctlVars, claimVars, ctxVars, dbVars, worldVars, IsTx
<1>14. CASE Acquired(r)
  BY <1>14 DEF Acquired, Goto, ctlVars, claimVars, ctxVars, dbVars, worldVars, IsTx
<1>15. CASE LockTimeout(r)
  BY <1>15 DEF LockTimeout, CallFails, AfterRollback, Goto, HeldAfterTx, ctlVars, claimVars,
     ctxVars, dbVars, worldVars, IsTx
<1>16. CASE RunSteps(r)
  BY <1>16 DEF RunSteps, Goto, ctlVars, claimVars, ctxVars, dbVars, worldVars, IsTx
<1>17. CASE RunCompensation(r)
  BY <1>17 DEF RunCompensation, Goto, ctlVars, claimVars, ctxVars, dbVars, worldVars, IsTx
<1>18. CASE RecordReply(r)
  BY <1>18 DEF RecordReply, Goto, ctlVars, claimVars, ctxVars, dbVars, worldVars, IsTx
<1>19. CASE BodyFails(r)
  BY <1>19 DEF BodyFails, CallFails, AfterRollback, Goto, HeldAfterTx, ctlVars, claimVars,
     ctxVars, dbVars, worldVars, IsTx
<1>20. CASE Commit(r)
  BY <1>20 DEF Commit, Goto, HeldAfterTx, ctlVars, claimVars, ctxVars, dbVars, worldVars, IsTx
<1>21. CASE CommitFails(r)
  BY <1>21 DEF CommitFails, CallFails, AfterRollback, Goto, HeldAfterTx, ctlVars, claimVars,
     ctxVars, dbVars, worldVars, IsTx
<1>22. CASE CommitLost(r)
  BY <1>22 DEF CommitLost, Goto, HeldAfterTx, ctlVars, claimVars, ctxVars, dbVars, worldVars,
     IsTx
<1>23. CASE Redo(r)
  BY <1>23 DEF Redo, BodyStart, Goto, UndoCall, Released, ctlVars, claimVars, ctxVars, dbVars,
     worldVars, IsTx
<1>24. CASE Undo(r)
  <2>1. /\ pc[r] = "undo" /\ pc'[r] = "judge" /\ UNCHANGED <<seg, unit, lastLocks>>
        /\ held' = [held EXCEPT ![r] = {}]
    BY <1>24 DEF Undo, Goto, Released, NoLocks
  <2> QED BY <2>1
<1>25. CASE Judge(r)
  BY <1>25 DEF Judge, Goto, Retries, ctlVars, claimVars, ctxVars, dbVars, worldVars, IsTx
<1>26. CASE Retry(r)
  BY <1>26 DEF Retry, StartAttempt, BodyStart, Goto, ctlVars, claimVars, ctxVars, dbVars,
     worldVars, IsTx
<1>27. CASE Settle(r)
  <2>1. pc[r] = "settle" /\ UNCHANGED <<unit, lastLocks>> /\ pc' = [pc EXCEPT ![r] = AfterUnit(r)]
        /\ seg' = IF AfterUnit(r) = "walk" THEN [seg EXCEPT ![r] = @ + 1] ELSE seg
    BY <1>27 DEF Settle, Goto
  <2>2. CASE unit[r] = "tx" /\ replayOf[r] = NoRun
    <3>1. AfterUnit(r) = "walk"
      BY <2>2 DEF AfterUnit
    <3>2. pc'[r] = "walk" /\ seg'[r] = seg[r] + 1
      BY <2>1, <3>1
    <3>3. TxBefore(seg[r] + 1) = {seg[r]} /\ {j \in SegIx : j = seg[r]} = {seg[r]}
      BY <2>1, <2>2, TxBeforeNext
    <3> QED BY <2>1, <2>2, <3>2, <3>3
  <2>3. CASE ~(unit[r] = "tx" /\ replayOf[r] = NoRun)
    <3>1. AfterUnit(r) = IF replayOf[r] # NoRun THEN "replayed"
                         ELSE IF unit[r] = "claim" THEN "call"
                         ELSE IF unit[r] = "compensate" THEN "failed" ELSE "done"
      BY <2>1, <2>3 DEF AfterUnit
    <3>2. pc'[r] = AfterUnit(r) /\ seg' = seg
      BY <2>1, <3>1
    <3> QED BY <2>1, <2>3, <3>1, <3>2
  <2> QED BY <2>2, <2>3
<1>28. CASE Crash(r)
  BY <1>28 DEF Crash, Goto, HeldAfterTx, ctlVars, claimVars, ctxVars, dbVars, worldVars, IsTx
<1> QED BY <1>1, <1>2, <1>3, <1>4, <1>5, <1>6, <1>7, <1>8, <1>9, <1>10, <1>11, <1>12, <1>13, <1>14,
      <1>15, <1>16, <1>17, <1>18, <1>19, <1>20, <1>21, <1>22, <1>23, <1>24, <1>25, <1>26, <1>27,
      <1>28 DEF Step

\* A step takes one lock that nobody holds, or none.
LEMMA HeldStep ==
  ASSUME TypeOK, NEW r \in Runs, Step(r) \/ Crash(r)
  PROVE  held'[r] \subseteq held[r] \/ \E l : FreeFor(l, r) /\ held'[r] = held[r] \cup {l}
<1> USE DEF TypeOK, LockTypes, NoLocks
<1>1. CASE WalkTransaction(r)
  BY <1>1 DEF WalkTransaction, dbVars
<1>2. CASE ResolveFails(r)
  BY <1>2 DEF ResolveFails, dbVars
<1>3. CASE WalkOutbound(r)
  BY <1>3 DEF WalkOutbound, dbVars
<1>4. CASE Finish(r)
  BY <1>4 DEF Finish, dbVars
<1>5. CASE ReplyFails(r)
  BY <1>5 DEF ReplyFails, dbVars
<1>6. CASE OutboundOk(r)
  BY <1>6 DEF OutboundOk, dbVars
<1>7. CASE OutboundFails(r)
  BY <1>7 DEF OutboundFails, dbVars
<1>8. CASE BeginUnit(r)
  BY <1>8 DEF BeginUnit, dbVars
<1>9. CASE CheckpointFails(r)
  BY <1>9 DEF CheckpointFails, dbVars
<1>10. CASE ClaimNew(r)
  BY <1>10 DEF ClaimNew, dbVars
<1>11. CASE ClaimReplay(r)
  BY <1>11 DEF ClaimReplay, dbVars
<1>12. CASE ClaimInProgress(r)
  BY <1>12 DEF ClaimInProgress, EndTx, HeldAfterTx, dbVars
<1>13. CASE AcquireNext(r)
  BY <1>13 DEF AcquireNext, dbVars
<1>14. CASE Acquired(r)
  BY <1>14 DEF Acquired, dbVars
<1>15. CASE LockTimeout(r)
  BY <1>15 DEF LockTimeout, CallFails, EndTx, HeldAfterTx, dbVars
<1>16. CASE RunSteps(r)
  BY <1>16 DEF RunSteps, dbVars
<1>17. CASE RunCompensation(r)
  BY <1>17 DEF RunCompensation, dbVars
<1>18. CASE RecordReply(r)
  BY <1>18 DEF RecordReply, dbVars
<1>19. CASE BodyFails(r)
  BY <1>19 DEF BodyFails, CallFails, EndTx, HeldAfterTx, dbVars
<1>20. CASE Commit(r)
  BY <1>20 DEF Commit, EndTx, HeldAfterTx, dbVars
<1>21. CASE CommitFails(r)
  BY <1>21 DEF CommitFails, CallFails, EndTx, HeldAfterTx, dbVars
<1>22. CASE CommitLost(r)
  BY <1>22 DEF CommitLost, EndTx, HeldAfterTx, dbVars
<1>23. CASE Redo(r)
  BY <1>23 DEF Redo, Released, dbVars
<1>24. CASE Undo(r)
  BY <1>24 DEF Undo, Released, dbVars
<1>25. CASE Judge(r)
  BY <1>25 DEF Judge, dbVars
<1>26. CASE Retry(r)
  BY <1>26 DEF Retry, dbVars
<1>27. CASE Settle(r)
  BY <1>27 DEF Settle, Released, dbVars
<1>28. CASE Crash(r)
  BY <1>28 DEF Crash, EndTx, HeldAfterTx, dbVars
<1> QED BY <1>1, <1>2, <1>3, <1>4, <1>5, <1>6, <1>7, <1>8, <1>9, <1>10, <1>11, <1>12, <1>13, <1>14,
      <1>15, <1>16, <1>17, <1>18, <1>19, <1>20, <1>21, <1>22, <1>23, <1>24, <1>25, <1>26, <1>27,
      <1>28 DEF Step

-----------------------------------------------------------------------------
(* The invariant, and what it says of the runs. *)

HeldByOne == \A r, q \in Runs : r # q => held[r] \cap held[q] = {}

DoneInv ==
  /\ \A r \in Runs : Progress(r) /\ Replays(r) /\ Drained(r) /\ Remembers(r) /\ Locking(r)
  /\ HeldByOne

LEMMA InitDone == Init => DoneInv
<1> SUFFICES ASSUME Init PROVE DoneInv
  OBVIOUS
<1>1. ASSUME NEW r \in Runs PROVE Progress(r) /\ Replays(r) /\ Drained(r)
  BY SegmentFacts DEF Init, Progress, Landed, Replays, Drained, Ended
<1>2. ASSUME NEW r \in Runs PROVE Remembers(r)
  BY SegmentFacts DEF Init, Remembers, Clean, Exec, BodyLabels
<1>3. ASSUME NEW r \in Runs PROVE Locking(r)
  <2>1. pc[r] = "walk" /\ lastLocks[r] = {} /\ TxBefore(seg[r]) = {}
    BY DEF Init, NoLocks, TxBefore
  <2>2. LastTx(r) = {}
    BY <2>1 DEF LastTx, Exec
  <2> QED BY <2>1, <2>2 DEF Locking
<1>4. HeldByOne
  BY DEF Init, HeldByOne, NoLocks
<1> QED BY <1>1, <1>2, <1>3, <1>4 DEF DoneInv

LEMMA DoneStep ==
  ASSUME LocalInv, DoneInv, NEW r \in Runs, Step(r) \/ Crash(r)
  PROVE  DoneInv'
<1> USE DEF LocalInv
<1>1. Progress(r)' /\ Replays(r)' /\ Drained(r)' /\ Remembers(r)' /\ Locking(r)'
  BY ProgressStep, DrainedStep, RemembersStep, LockingStep DEF DoneInv
<1>2. ASSUME NEW q \in Runs, q # r
      PROVE  Progress(q)' /\ Replays(q)' /\ Drained(q)' /\ Remembers(q)' /\ Locking(q)'
  <2>1. UNCHANGED Of(q) /\ UNCHANGED Done(q)
    BY <1>2, OthersKeep, OthersKeepDone
  <2>2. Progress(q)' /\ Replays(q)' /\ Drained(q)'
    BY <2>1 DEF DoneInv, Of, Done, Progress, Landed, Replays, Drained
  <2>3. Remembers(q)'
    BY <2>1 DEF DoneInv, Of, Done, Remembers, Clean
  <2>4. Locking(q)'
    BY <2>1 DEF DoneInv, Of, Done, Locking, LastTx, Wanted, Compensates
  <2> QED BY <2>2, <2>3, <2>4
<1>3. ASSUME NEW q \in Runs, q # r PROVE held'[q] = held[q] /\ held'[r] \cap held[q] = {}
  <2>1. held'[q] = held[q] /\ held[r] \cap held[q] = {}
    BY <1>3, OthersKeep DEF Of, DoneInv, HeldByOne
  <2> QED BY <1>3, <2>1, HeldStep DEF FreeFor
<1>4. HeldByOne'
  <2> SUFFICES ASSUME NEW p \in Runs, NEW q \in Runs, p # q PROVE held'[p] \cap held'[q] = {}
    BY DEF HeldByOne
  <2> QED BY <1>3 DEF DoneInv, HeldByOne
<1> QED BY <1>1, <1>2, <1>4 DEF DoneInv

LEMMA StutterDone == DoneInv /\ UNCHANGED vars => DoneInv'
<1> SUFFICES ASSUME DoneInv, UNCHANGED vars PROVE DoneInv'
  OBVIOUS
<1>1. ASSUME NEW q \in Runs
      PROVE  Progress(q)' /\ Replays(q)' /\ Drained(q)' /\ Remembers(q)' /\ Locking(q)'
  <2>1. UNCHANGED Of(q) /\ UNCHANGED Done(q)
    BY DEF vars, Of, Done
  <2>2. Progress(q)' /\ Replays(q)' /\ Drained(q)'
    BY <2>1 DEF DoneInv, Of, Done, Progress, Landed, Replays, Drained
  <2>3. Remembers(q)'
    BY <2>1 DEF DoneInv, Of, Done, Remembers, Clean
  <2>4. Locking(q)'
    BY <2>1 DEF DoneInv, Of, Done, Locking, LastTx, Wanted, Compensates
  <2> QED BY <2>2, <2>3, <2>4
<1>2. HeldByOne'
  BY DEF vars, DoneInv, HeldByOne
<1> QED BY <1>1, <1>2 DEF DoneInv

LEMMA DoneInvariant == Spec => [](LocalInv /\ DoneInv)
<1>1. Init => LocalInv /\ DoneInv
  BY InitInv, InitDone
<1>2. LocalInv /\ DoneInv /\ [Next]_vars => (LocalInv /\ DoneInv)'
  BY LocalStep, StutterLocal, DoneStep, StutterDone DEF Next, AllEnded
<1> QED BY <1>1, <1>2, PTL DEF Spec

\* A committed unit and a successful call are never repeated by their run (SagaRunner.walk, the
\* attempt loop of UnitOfWorkExecutor.execute), for any saga, retry policy and failures: a COMMIT
\* whose answer is lost is no error that is retried.
THEOREM SegmentsRunOnce == Spec => []NeverRerun
<1>1. LocalInv /\ DoneInv => NeverRerun
  <2> SUFFICES ASSUME LocalInv, DoneInv, NEW r \in Runs, NEW i \in SegIx PROVE db[r][i] <= 1 /\ sent[r][i] <= 1
    BY DEF NeverRerun
  <2>1. Progress(r) /\ seg[r] \in Nat
    BY SegmentFacts DEF DoneInv, LocalInv, TypeOK, PlaceTypes
  <2> QED BY <2>1, SegmentFacts DEF Progress
<1> QED BY <1>1, DoneInvariant, PTL

\* Callbacks run once for every commit the run heard of and for no other call (undoCall, drain).
THEOREM HooksOncePerCommit == Spec => []HooksFollowCommits
<1>1. LocalInv /\ DoneInv => HooksFollowCommits
  <2> SUFFICES ASSUME LocalInv, DoneInv, NEW r \in Runs, NEW i \in SegIx
               PROVE  /\ fired[r][i] <= db[r][i]
                      /\ pc[r] = "done" /\ IsTx(i) => fired[r][i] = 1
    BY DEF HooksFollowCommits
  <2>1. Progress(r) /\ Drained(r) /\ db[r][i] \in Nat /\ seg[r] \in Nat
    BY SegmentFacts DEF DoneInv, LocalInv, TypeOK, DbTypes, PlaceTypes, Tally
  <2> QED BY <2>1, SegmentFacts DEF Progress, Drained
<1> QED BY <1>1, DoneInvariant, PTL

\* Under a retry policy the steps of every attempt and of every repeated call see ctx as it was when
\* the unit began (checkpointOf, restore).
THEOREM AttemptsStartClean == Spec => []RetriesSeeCleanCtx
<1>1. LocalInv /\ DoneInv => RetriesSeeCleanCtx
  BY DEF DoneInv, Remembers, RetriesSeeCleanCtx, CleanCtx, Clean, BodyLabels
<1> QED BY <1>1, DoneInvariant, PTL

\* Units with a declared lock in common never run their steps together, compensations with the
\* inherited locks included, for any locks, runs and failures (acquire, runOutbound's lastLocks).
THEOREM LockedUnitsExclude == Spec => []LockedStepsExclude
<1>1. ASSUME LocalInv, DoneInv, NEW r \in Runs, pc[r] = "steps" PROVE Protecting(r) \subseteq held[r]
  <2>1. Locking(r)
    BY <1>1 DEF DoneInv
  <2>2. Wanted(r) \subseteq held[r] /\ lastLocks[r] = UNION {LocksOf[r][j] : j \in LastTx(r)}
    BY <1>1, <2>1 DEF Locking, Ended
  <2>3. unit[r] # "tx" => LastTx(r) = TxBefore(seg[r])
    BY DEF LastTx
  <2> QED BY <2>2, <2>3 DEF Protecting, Wanted
<1>2. LocalInv /\ DoneInv => LockedStepsExclude
  BY <1>1 DEF LockedStepsExclude, DoneInv, HeldByOne
<1> QED BY <1>2, DoneInvariant, PTL
-----------------------------------------------------------------------------
(* Why a key may stay in progress when its run has failed. *)

\* Something that the database or the outside keeps is there, or the compensation was begun.
Effect(r) == Standing(r) \/ (\E i \in SegIx : sent[r][i] > 0) \/ unit[r] = "compensate"

\* The claim is committed before any effect: by a claim unit whose call comes next, or by a ledger
\* that ignores the transaction, until undoCall releases it.
Underway(r) ==
  \/ pc[r] = "crashed"
  \/ claimed[r] /\ unit[r] = "claim" /\ pc[r] \in {"settle", "call"}
  \/ /\ ~Transactional /\ claimed[r] /\ ~saved[r]
     /\ pc[r] \in {"acquire", "steps", "commit", "undo", "redo"}

\* The claim of r is in progress for a reason.
Reasoned(r) ==
  /\ replayOf[r] # NoRun => ~claimed[r]
  /\ row[r] # "none" => Transactional /\ claimed[r] /\ pc[r] \in {"acquire", "steps", "commit"}
  /\ Keyed(r) /\ Ours(r) => Effect(r) \/ Underway(r)

ReasonInv == \A r \in Runs : Reasoned(r)

\* undoCall's release reaches the ledger, where the claim is not undone by the rollback.
ReleasesWork == "release" \notin Faults \/ Transactional

\* No unit that only claims the key loses the answer of its COMMIT over a ledger it commits with.
ClaimUnitsAnswer == "lostCommit" \notin Faults \/ IsTx(1) \/ ~Transactional

\* A step writes no row but the one of its run's key, in its run's name.
LEMMA LedgerWrites ==
  ASSUME NEW r \in Runs, Step(r) \/ Crash(r)
  PROVE  \/ ledger' = ledger
         \/ \E st : ledger' = [ledger EXCEPT ![KeyOf[r]] = Entry(st, r)]
<1>1. CASE WalkTransaction(r)
  BY <1>1 DEF WalkTransaction, dbVars
<1>2. CASE ResolveFails(r)
  BY <1>2 DEF ResolveFails, dbVars
<1>3. CASE WalkOutbound(r)
  BY <1>3 DEF WalkOutbound, dbVars
<1>4. CASE Finish(r)
  BY <1>4 DEF Finish, dbVars
<1>5. CASE ReplyFails(r)
  BY <1>5 DEF ReplyFails, dbVars
<1>6. CASE OutboundOk(r)
  BY <1>6 DEF OutboundOk, dbVars
<1>7. CASE OutboundFails(r)
  BY <1>7 DEF OutboundFails, dbVars
<1>8. CASE BeginUnit(r)
  BY <1>8 DEF BeginUnit, dbVars
<1>9. CASE CheckpointFails(r)
  BY <1>9 DEF CheckpointFails, dbVars
<1>10. CASE ClaimNew(r)
  BY <1>10 DEF ClaimNew, WriteLedger, dbVars
<1>11. CASE ClaimReplay(r)
  BY <1>11 DEF ClaimReplay, dbVars
<1>12. CASE ClaimInProgress(r)
  BY <1>12 DEF ClaimInProgress, dbVars
<1>13. CASE AcquireNext(r)
  BY <1>13 DEF AcquireNext, dbVars
<1>14. CASE Acquired(r)
  BY <1>14 DEF Acquired, dbVars
<1>15. CASE LockTimeout(r)
  BY <1>15 DEF LockTimeout, dbVars
<1>16. CASE RunSteps(r)
  BY <1>16 DEF RunSteps, WriteLedger, dbVars
<1>17. CASE RunCompensation(r)
  BY <1>17 DEF RunCompensation, WriteLedger, dbVars
<1>18. CASE RecordReply(r)
  BY <1>18 DEF RecordReply, WriteLedger, dbVars
<1>19. CASE BodyFails(r)
  BY <1>19 DEF BodyFails, dbVars
<1>20. CASE Commit(r)
  BY <1>20 DEF Commit, Committed, dbVars
<1>21. CASE CommitFails(r)
  BY <1>21 DEF CommitFails, dbVars
<1>22. CASE CommitLost(r)
  BY <1>22 DEF CommitLost, Committed, dbVars
<1>23. CASE Redo(r)
  BY <1>23 DEF Redo, UndoCall, dbVars
<1>24. CASE Undo(r)
  BY <1>24 DEF Undo, UndoCall, dbVars
<1>25. CASE Judge(r)
  BY <1>25 DEF Judge, dbVars
<1>26. CASE Retry(r)
  BY <1>26 DEF Retry, dbVars
<1>27. CASE Settle(r)
  BY <1>27 DEF Settle, dbVars
<1>28. CASE Crash(r)
  BY <1>28 DEF Crash, dbVars
<1> QED BY <1>1, <1>2, <1>3, <1>4, <1>5, <1>6, <1>7, <1>8, <1>9, <1>10, <1>11, <1>12, <1>13,
      <1>14, <1>15, <1>16, <1>17, <1>18, <1>19, <1>20, <1>21, <1>22, <1>23, <1>24, <1>25, <1>26,
      <1>27, <1>28 DEF Step

\* What is done stays done: only a compensation undoes work, and then it was begun.
LEMMA EffectLasts ==
  ASSUME TypeOK, ControlInv, NEW r \in Runs, Progress(r), Effect(r), Step(r) \/ Crash(r)
  PROVE  Effect(r)'
<1>0. pc[r] \in {"walk", "call"} => unit[r] # "compensate"
  BY DEF Progress, Exec
<1> USE <1>0 DEF TypeOK, PlaceTypes, DbTypes, WorldTypes, Tally, Effect, Standing
<1>1. CASE WalkTransaction(r)
  BY <1>1 DEF WalkTransaction, EnterUnit, Goto, ctlVars, claimVars, ctxVars, dbVars, worldVars
<1>2. CASE ResolveFails(r)
  BY <1>2 DEF ResolveFails, Goto, ctlVars, claimVars, ctxVars, dbVars, worldVars
<1>3. CASE WalkOutbound(r)
  BY <1>3 DEF WalkOutbound, EnterUnit, Goto, ctlVars, claimVars, ctxVars, dbVars, worldVars
<1>4. CASE Finish(r)
  BY <1>4 DEF Finish, EnterUnit, Goto, ctlVars, claimVars, ctxVars, dbVars, worldVars
<1>5. CASE ReplyFails(r)
  BY <1>5 DEF ReplyFails, Goto, ctlVars, claimVars, ctxVars, dbVars, worldVars
<1>6. CASE OutboundOk(r)
  BY <1>6 DEF OutboundOk, Goto, ctlVars, claimVars, ctxVars, dbVars, worldVars
<1>7. CASE OutboundFails(r)
  BY <1>7 DEF OutboundFails, EnterUnit, Goto, ctlVars, claimVars, ctxVars, dbVars, worldVars
<1>8. CASE BeginUnit(r)
  BY <1>8 DEF BeginUnit, Goto, ctlVars, claimVars, ctxVars, dbVars, worldVars
<1>9. CASE CheckpointFails(r)
  BY <1>9 DEF CheckpointFails, Goto, ctlVars, claimVars, ctxVars, dbVars, worldVars
<1>10. CASE ClaimNew(r)
  BY <1>10 DEF ClaimNew, Goto, ctlVars, claimVars, ctxVars, dbVars, worldVars
<1>11. CASE ClaimReplay(r)
  BY <1>11 DEF ClaimReplay, Goto, ctlVars, claimVars, ctxVars, dbVars, worldVars
<1>12. CASE ClaimInProgress(r)
  BY <1>12 DEF ClaimInProgress, Goto, ctlVars, claimVars, ctxVars, dbVars, worldVars
<1>13. CASE AcquireNext(r)
  BY <1>13 DEF AcquireNext, ctlVars, claimVars, ctxVars, dbVars, worldVars
<1>14. CASE Acquired(r)
  BY <1>14 DEF Acquired, Goto, ctlVars, claimVars, ctxVars, dbVars, worldVars
<1>15. CASE LockTimeout(r)
  BY <1>15 DEF LockTimeout, Goto, ctlVars, claimVars, ctxVars, dbVars, worldVars
<1>16. CASE RunSteps(r)
  BY <1>16 DEF RunSteps, Goto, ctlVars, claimVars, ctxVars, dbVars, worldVars
<1>17. CASE RunCompensation(r)
  BY <1>17 DEF RunCompensation, Goto, ctlVars, claimVars, ctxVars, dbVars, worldVars
<1>18. CASE RecordReply(r)
  BY <1>18 DEF RecordReply, Goto, ctlVars, claimVars, ctxVars, dbVars, worldVars
<1>19. CASE BodyFails(r)
  BY <1>19 DEF BodyFails, Goto, ctlVars, claimVars, ctxVars, dbVars, worldVars
<1>20. CASE Commit(r)
  BY <1>20 DEF Commit, ApplyUnit, Goto, ctlVars, claimVars, ctxVars, dbVars, worldVars
<1>21. CASE CommitFails(r)
  BY <1>21 DEF CommitFails, Goto, ctlVars, claimVars, ctxVars, dbVars, worldVars
<1>22. CASE CommitLost(r)
  BY <1>22 DEF CommitLost, ApplyUnit, Goto, ctlVars, claimVars, ctxVars, dbVars, worldVars
<1>23. CASE Redo(r)
  BY <1>23 DEF Redo, Goto, ctlVars, claimVars, ctxVars, dbVars, worldVars
<1>24. CASE Undo(r)
  BY <1>24 DEF Undo, Goto, ctlVars, claimVars, ctxVars, dbVars, worldVars
<1>25. CASE Judge(r)
  BY <1>25 DEF Judge, Goto, ctlVars, claimVars, ctxVars, dbVars, worldVars
<1>26. CASE Retry(r)
  BY <1>26 DEF Retry, Goto, ctlVars, claimVars, ctxVars, dbVars, worldVars
<1>27. CASE Settle(r)
  BY <1>27 DEF Settle, Goto, ctlVars, claimVars, ctxVars, dbVars, worldVars
<1>28. CASE Crash(r)
  BY <1>28 DEF Crash, Goto, ctlVars, claimVars, ctxVars, dbVars, worldVars
<1> QED BY <1>1, <1>2, <1>3, <1>4, <1>5, <1>6, <1>7, <1>8, <1>9, <1>10, <1>11, <1>12, <1>13,
      <1>14, <1>15, <1>16, <1>17, <1>18, <1>19, <1>20, <1>21, <1>22, <1>23, <1>24, <1>25, <1>26,
      <1>27, <1>28 DEF Step

\* At its first segment nothing is done yet, later something always is.
LEMMA EarlierEffect ==
  ASSUME TypeOK, NEW r \in Runs, Progress(r), seg[r] > 1
  PROVE  Effect(r)
<1>1. 1 \in SegIx /\ 1 < seg[r]
  BY SegmentFacts
<1>2. db[r][1] = 1 \/ sent[r][1] = 1
  BY <1>1 DEF Progress
<1>3. undone[r] # {} => unit[r] = "compensate"
  BY DEF Progress
<1> QED BY <1>1, <1>2, <1>3 DEF Effect, Standing

\* The COMMIT of the segment's transaction is an effect.
LEMMA UnitEffect ==
  ASSUME TypeOK, ControlInv, NEW r \in Runs, Progress(r), pc[r] = "commit", ApplyUnit(r), UNCHANGED <<unit, sent>>,
         Effect(r) \/ (unit[r] = "tx" /\ replayOf[r] = NoRun)
  PROVE  Effect(r)'
<1>0. Control(r)
  BY DEF ControlInv
<1>1. CASE unit[r] = "tx" /\ replayOf[r] = NoRun
  <2>1. seg[r] \in SegIx /\ undone[r] = {}
    BY <1>0, <1>1 DEF Control, Exec, Progress
  <2>2. db'[r][seg[r]] > 0 /\ undone' = undone
    BY <1>1, <2>1 DEF ApplyUnit, TypeOK, DbTypes, Tally
  <2> QED BY <2>1, <2>2 DEF Effect, Standing
<1>2. CASE ~(unit[r] = "tx" /\ replayOf[r] = NoRun)
  BY <1>2 DEF Effect, Standing, ApplyUnit
<1> QED BY <1>1, <1>2

\* A step of r commits its claim only together with an effect, or underway to one; from there the
\* run either gets to the effect, or undoCall or a compensation gives the key back.
LEMMA ReasonedStep ==
  ASSUME TypeOK, ControlInv, MemoryInv, ReleasesWork, ClaimUnitsAnswer,
         NEW r \in Runs, Progress(r), Replays(r), Reasoned(r), Step(r) \/ Crash(r)
  PROVE  Reasoned(r)'
<1>0. Control(r) /\ Memory(r) /\ seg[r] \in 1 .. N + 1 /\ (Keyed(r) => KeyOf[r] \in Keys)
  BY KeyType DEF ControlInv, MemoryInv, TypeOK, PlaceTypes, N, Keyed
<1>e. Effect(r) => Effect(r)'
  BY EffectLasts
<1>f. ~Effect(r) => seg[r] = 1
  BY <1>0, EarlierEffect, SegmentFacts
<1>k. Keyed(r)' = Keyed(r)
  BY DEF Keyed
<1> USE <1>0, <1>e, <1>f, <1>k, SegmentFacts DEF TypeOK, PlaceTypes, ClaimTypes, DbTypes, WorldTypes,
   Tally, Control, Memory, Exec, BodyLabels, Replays, Reasoned, Underway, Ours, Entry
<1>1. CASE WalkTransaction(r)
  BY <1>1 DEF WalkTransaction, EnterUnit, Goto, ctlVars, claimVars, ctxVars, dbVars, worldVars
<1>2. CASE ResolveFails(r)
  BY <1>2 DEF ResolveFails, Goto, ctlVars, claimVars, ctxVars, dbVars, worldVars
<1>3. CASE WalkOutbound(r)
  BY <1>3 DEF WalkOutbound, EnterUnit, Goto, ctlVars, claimVars, ctxVars, dbVars, worldVars
<1>4. CASE Finish(r)
  BY <1>4 DEF Finish, EnterUnit, Goto, ctlVars, claimVars, ctxVars, dbVars, worldVars
<1>5. CASE ReplyFails(r)
  BY <1>5 DEF ReplyFails, Goto, ctlVars, claimVars, ctxVars, dbVars, worldVars
<1>6. CASE OutboundOk(r)
  <2>1. sent'[r][seg[r]] > 0 /\ seg[r] \in SegIx
    BY <1>6 DEF OutboundOk
  <2>2. Effect(r)'
    BY <2>1 DEF Effect
  <2> QED BY <1>6, <2>2 DEF OutboundOk, Goto, claimVars, dbVars
<1>7. CASE OutboundFails(r)
  BY <1>7 DEF OutboundFails, EnterUnit, Goto, Effect, ctlVars, claimVars, ctxVars, dbVars,
     worldVars
<1>8. CASE BeginUnit(r)
  BY <1>8 DEF BeginUnit, StartAttempt, BodyStart, Goto, ctlVars, claimVars, ctxVars, dbVars,
     worldVars
<1>9. CASE CheckpointFails(r)
  BY <1>9 DEF CheckpointFails, StartAttempt, BodyStart, Goto, ctlVars, claimVars, ctxVars,
     dbVars, worldVars
<1>10. CASE ClaimNew(r)
  BY <1>10 DEF ClaimNew, WriteLedger, Goto, ctlVars, claimVars, ctxVars, dbVars, worldVars
<1>11. CASE ClaimReplay(r)
  BY <1>11 DEF ClaimReplay, Goto, ctlVars, claimVars, ctxVars, dbVars, worldVars
<1>12. CASE ClaimInProgress(r)
  BY <1>12 DEF ClaimInProgress, EndTx, Goto, ctlVars, claimVars, ctxVars, dbVars, worldVars
<1>13. CASE AcquireNext(r)
  BY <1>13 DEF AcquireNext, ctlVars, claimVars, ctxVars, dbVars, worldVars
<1>14. CASE Acquired(r)
  BY <1>14 DEF Acquired, Goto, ctlVars, claimVars, ctxVars, dbVars, worldVars
<1>15. CASE LockTimeout(r)
  BY <1>15 DEF LockTimeout, CallFails, AfterRollback, EndTx, Goto, ctlVars, claimVars, ctxVars,
     dbVars, worldVars
<1>16. CASE RunSteps(r)
  BY <1>16 DEF RunSteps, WriteLedger, Goto, ctlVars, claimVars, ctxVars, dbVars, worldVars
<1>17. CASE RunCompensation(r)
  BY <1>17 DEF RunCompensation, WriteLedger, Goto, Effect, ctlVars, claimVars, ctxVars, dbVars,
     worldVars
<1>18. CASE RecordReply(r)
  BY <1>18 DEF RecordReply, WriteLedger, Goto, ctlVars, claimVars, ctxVars, dbVars, worldVars
<1>19. CASE BodyFails(r)
  BY <1>19 DEF BodyFails, CallFails, AfterRollback, EndTx, Goto, ctlVars, claimVars, ctxVars,
     dbVars, worldVars
<1>20. CASE Commit(r)
  <2>1. ledger' = Committed(r) /\ ApplyUnit(r) /\ UNCHANGED <<unit, sent>>
    BY <1>20 DEF Commit, worldVars
  <2>2. CASE Effect(r) \/ (unit[r] = "tx" /\ replayOf[r] = NoRun)
    <3>1. Effect(r)'
      BY <1>20, <2>1, <2>2, UnitEffect DEF Commit
    <3> QED BY <1>20, <3>1 DEF Commit, EndTx, Goto, claimVars
  <2>3. CASE ~Effect(r) /\ ~(unit[r] = "tx" /\ replayOf[r] = NoRun)
    <3>1. unit[r] \in {"tx", "claim"} /\ (unit[r] = "tx" => ~claimed[r])
      BY <1>20, <2>3 DEF Commit, Effect
    <3>2. Keyed(r) /\ Ours(r)' => claimed[r] /\ unit[r] = "claim"
      BY <1>20, <2>3, <3>1 DEF Commit, Committed
    <3> QED BY <1>20, <3>2 DEF Commit, EndTx, Goto, claimVars
  <2> QED BY <2>2, <2>3
<1>21. CASE CommitFails(r)
  BY <1>21 DEF CommitFails, CallFails, AfterRollback, EndTx, Goto, ctlVars, claimVars, ctxVars,
     dbVars, worldVars
<1>22. CASE CommitLost(r)
  <2>1. ledger' = Committed(r) /\ ApplyUnit(r) /\ UNCHANGED <<unit, sent>>
    BY <1>22 DEF CommitLost, worldVars
  <2>2. CASE Effect(r) \/ (unit[r] = "tx" /\ replayOf[r] = NoRun)
    <3>1. Effect(r)'
      BY <1>22, <2>1, <2>2, UnitEffect DEF CommitLost
    <3> QED BY <1>22, <3>1 DEF CommitLost, EndTx, Goto, claimVars
  <2>3. CASE ~Effect(r) /\ ~(unit[r] = "tx" /\ replayOf[r] = NoRun)
    <3>1. unit[r] \in {"tx", "claim"} /\ (unit[r] = "tx" => ~claimed[r])
      BY <1>22, <2>3 DEF CommitLost, Effect
    <3>2. unit[r] = "claim" => ~Transactional
      BY <1>22, <2>3 DEF CommitLost, ClaimUnitsAnswer
    <3>3. Keyed(r) /\ Ours(r)' => ~Transactional /\ Ours(r)
      BY <1>22, <2>3, <3>1, <3>2 DEF CommitLost, Committed
    <3>4. Keyed(r) /\ Ours(r)' => ~Transactional /\ claimed[r] /\ ~saved[r]
      BY <1>22, <2>3, <3>3 DEF CommitLost
    <3> QED BY <1>22, <3>4 DEF CommitLost, EndTx, Goto, claimVars
  <2> QED BY <2>2, <2>3
<1>23. CASE Redo(r)
  <2>1. pc[r] = "redo" /\ UndoCall(r) /\ row[r] = "none" /\ UNCHANGED <<unit, saved, row>>
    BY <1>23 DEF Redo
  <2>2. /\ claimed'[r] = saved[r] /\ replayOf'[r] = NoRun
        /\ ledger' = ledger \/ ledger' = [ledger EXCEPT ![KeyOf[r]] = Entry("free", r)]
        /\ ~Transactional /\ claimed[r] /\ ~saved[r] =>
             ledger' = [ledger EXCEPT ![KeyOf[r]] = Entry("free", r)]
    BY <2>1 DEF UndoCall, ClaimedHere, ReleasesWork
  <2>3. Keyed(r) /\ Ours(r)' => Ours(r) /\ (~Transactional => ~(claimed[r] /\ ~saved[r]))
    BY <2>2
  <2>4. Keyed(r) /\ Ours(r)' => Effect(r)'
    BY <2>1, <2>3
  <2> QED BY <2>1, <2>2, <2>4
<1>24. CASE Undo(r)
  <2>1. pc[r] = "undo" /\ UndoCall(r) /\ row[r] = "none" /\ UNCHANGED <<unit, saved, row>>
    BY <1>24 DEF Undo
  <2>2. /\ claimed'[r] = saved[r] /\ replayOf'[r] = NoRun
        /\ ledger' = ledger \/ ledger' = [ledger EXCEPT ![KeyOf[r]] = Entry("free", r)]
        /\ ~Transactional /\ claimed[r] /\ ~saved[r] =>
             ledger' = [ledger EXCEPT ![KeyOf[r]] = Entry("free", r)]
    BY <2>1 DEF UndoCall, ClaimedHere, ReleasesWork
  <2>3. Keyed(r) /\ Ours(r)' => Ours(r) /\ (~Transactional => ~(claimed[r] /\ ~saved[r]))
    BY <2>2
  <2>4. Keyed(r) /\ Ours(r)' => Effect(r)'
    BY <2>1, <2>3
  <2> QED BY <2>1, <2>2, <2>4
<1>25. CASE Judge(r)
  BY <1>25 DEF Judge, Goto, ctlVars, claimVars, ctxVars, dbVars, worldVars
<1>26. CASE Retry(r)
  BY <1>26 DEF Retry, StartAttempt, BodyStart, Goto, ctlVars, claimVars, ctxVars, dbVars,
     worldVars
<1>27. CASE Settle(r)
  BY <1>27 DEF Settle, AfterUnit, Goto, ctlVars, claimVars, ctxVars, dbVars, worldVars
<1>28. CASE Crash(r)
  BY <1>28 DEF Crash, EndTx, Goto, ctlVars, claimVars, ctxVars, dbVars, worldVars
<1> QED BY <1>1, <1>2, <1>3, <1>4, <1>5, <1>6, <1>7, <1>8, <1>9, <1>10, <1>11, <1>12, <1>13,
      <1>14, <1>15, <1>16, <1>17, <1>18, <1>19, <1>20, <1>21, <1>22, <1>23, <1>24, <1>25, <1>26,
      <1>27, <1>28 DEF Step

\* No step of a run puts the key of another in progress.
LEMMA ReasonedByOthers ==
  ASSUME TypeOK, NEW r \in Runs, Step(r) \/ Crash(r), NEW q \in Runs, q # r, Reasoned(q)
  PROVE  Reasoned(q)'
<1>1. UNCHANGED Of(q) /\ UNCHANGED Done(q)
  BY OthersKeep, OthersKeepDone
<1>2. Effect(q)' = Effect(q) /\ Underway(q)' = Underway(q) /\ Keyed(q)' = Keyed(q)
  BY <1>1 DEF Of, Done, Effect, Standing, Underway, Keyed
<1>3. ASSUME Keyed(q), Ours(q)' PROVE Ours(q)
  <2>1. CASE ledger' = ledger
    BY <1>3, <2>1 DEF Ours
  <2>2. ASSUME NEW st, ledger' = [ledger EXCEPT ![KeyOf[r]] = Entry(st, r)] PROVE Ours(q)
    <3>1. KeyOf[q] \in Keys
      BY <1>3, KeyType DEF Keyed
    <3>2. CASE KeyOf[q] # KeyOf[r]
      BY <1>3, <2>2, <3>1, <3>2 DEF Ours, TypeOK, DbTypes
    <3>3. CASE KeyOf[q] = KeyOf[r]
      <4>1. Entry(st, r) = Entry("pending", q)
        BY <1>3, <2>2, <3>1, <3>3 DEF Ours, TypeOK, DbTypes
      <4> QED BY <4>1, RunsAssumption DEF Entry
    <3> QED BY <3>2, <3>3
  <2> QED BY <2>1, <2>2, LedgerWrites
<1> QED BY <1>1, <1>2, <1>3 DEF Of, Reasoned

LEMMA ReasonInvariant ==
  ASSUME ReleasesWork, ClaimUnitsAnswer
  PROVE  Spec => [](LocalInv /\ DoneInv /\ ReasonInv)
<1>1. Init => LocalInv /\ DoneInv /\ ReasonInv
  <2> SUFFICES ASSUME Init PROVE ReasonInv
    BY InitInv, InitDone
  <2> SUFFICES ASSUME NEW r \in Runs PROVE Reasoned(r)
    BY DEF ReasonInv
  <2> QED BY KeyType DEF Init, Reasoned, Ours, Entry, Keyed
<1>2. ASSUME LocalInv, DoneInv, ReasonInv, NEW r \in Runs, Step(r) \/ Crash(r)
      PROVE  (LocalInv /\ DoneInv /\ ReasonInv)'
  <2>1. LocalInv' /\ DoneInv'
    BY <1>2, LocalStep, DoneStep
  <2>2. TypeOK /\ ControlInv /\ MemoryInv /\ Progress(r) /\ Replays(r)
    BY <1>2 DEF LocalInv, DoneInv
  <2>3. Reasoned(r)'
    BY <1>2, <2>2, ReasonedStep DEF ReasonInv
  <2>4. ASSUME NEW q \in Runs, q # r PROVE Reasoned(q)'
    BY <1>2, <2>2, <2>4, ReasonedByOthers DEF ReasonInv
  <2> QED BY <2>1, <2>3, <2>4 DEF ReasonInv
<1>3. ASSUME LocalInv, DoneInv, ReasonInv, UNCHANGED vars PROVE (LocalInv /\ DoneInv /\ ReasonInv)'
  <2>1. LocalInv' /\ DoneInv'
    BY <1>3, StutterLocal, StutterDone
  <2>2. ReasonInv'
    BY <1>3 DEF vars, ReasonInv, Reasoned, Effect, Standing, Underway, Ours, Keyed
  <2> QED BY <2>1, <2>2
<1>4. LocalInv /\ DoneInv /\ ReasonInv /\ [Next]_vars => (LocalInv /\ DoneInv /\ ReasonInv)'
  BY <1>2, <1>3 DEF Next, AllEnded
<1> QED BY <1>1, <1>4, PTL DEF Spec

\* The key of a run that failed is still in progress only for something the run made durable, a call
\* it made or a compensation that failed too (R10 of docs/SAGA_CONCURRENCY_SPEC.md; undoCall,
\* runOutbound), for any saga, locks, retries and duplicates, and for ledgers of both kinds. A
\* release that fails in undoCall and the lost COMMIT of a unit that only claimed are the two ways
\* to a stuck key with nothing behind it, and the hypotheses exclude just them.
THEOREM StuckKeysHaveAReason ==
  ASSUME ReleasesWork, ClaimUnitsAnswer
  PROVE  Spec => []StuckOnlyAfterEffect
<1>1. ReasonInv => StuckOnlyAfterEffect
  <2> SUFFICES ASSUME ReasonInv, NEW r \in Runs, pc[r] = "failed", Keyed(r), Ours(r)
               PROVE  Standing(r) \/ (\E i \in SegIx : sent[r][i] > 0) \/ unit[r] = "compensate"
    BY DEF StuckOnlyAfterEffect, Ours
  <2>1. Reasoned(r) /\ ~Underway(r)
    BY DEF ReasonInv, Underway
  <2> QED BY <2>1 DEF Reasoned, Effect
<1> QED BY <1>1, ReasonInvariant, PTL


-----------------------------------------------------------------------------
(* What the ledger knows of a run. *)

\* The reply of r is recorded, or is as soon as its open unit commits.
Recorded(r) ==
  \/ pc[r] = "settle" /\ (unit[r] = "record" \/ (unit[r] = "tx" /\ IsLast(r) /\ replayOf[r] = NoRun))
  \/ pc[r] = "walk" /\ seg[r] = N + 1 /\ IsTx(N)
  \/ pc[r] = "done"

\* The row that the open unit of r commits.
Writes(r) ==
  /\ row[r] = "pending" => ~saved[r]
  /\ pc[r] = "commit" /\ unit[r] = "tx" /\ IsLast(r) /\ replayOf[r] = NoRun => row[r] = "applied"
  /\ pc[r] = "commit" /\ unit[r] = "record" => row[r] = "applied"
  /\ pc[r] = "commit" /\ unit[r] = "compensate" => row[r] = "free"

Named(r) == ledger[KeyOf[r]] \in {Entry("pending", r), Entry("applied", r)}

\* Standing and recorded work has its row; a replay has a complete one of somebody else.
Kept(r) ==
  /\ pc[r] = "walk" /\ seg[r] > 1 => claimed[r]
  /\ Writes(r)
  /\ replayOf[r] # NoRun => ~claimed[r] /\ replayOf[r] # r /\ ledger[KeyOf[r]] = Entry("applied", replayOf[r])
  /\ pc[r] = "replayed" => replayOf[r] # NoRun
  /\ Standing(r) => Named(r)
  /\ Recorded(r) => ledger[KeyOf[r]] = Entry("applied", r)
  /\ ledger[KeyOf[r]] = Entry("applied", r) => Complete(r)

KeptInv ==
  /\ \A r \in Runs : Keyed(r) => Kept(r)
  /\ \A r \in Runs : ~Keyed(r) => replayOf[r] = NoRun /\ pc[r] # "replayed"
  /\ \A k \in Keys : ledger[k].st # "free" => KeyOf[ledger[k].by] = k

\* The saga undoes every outbound step that fails.
EveryCallCompensates == \A i \in SegIx : ~IsTx(i) => Segments[i].compensates

SagaInv == LocalInv /\ OwnershipInv /\ DoneInv /\ KeptInv

LEMMA EntryFields ==
  ASSUME NEW r \in Runs, NEW st
  PROVE  Entry(st, r).st = st /\ (st # "free" => Entry(st, r).by = r) /\ (st = "free" => Entry(st, r).by = NoRun)
  BY DEF Entry

\* Only a commit changes what the database says.
LEMMA QuietDb ==
  ASSUME Transactional, NEW r \in Runs, Step(r) \/ Crash(r), ~Commit(r), ~CommitLost(r)
  PROVE  UNCHANGED <<ledger, db, undone>>
<1>1. CASE WalkTransaction(r)
  BY <1>1 DEF WalkTransaction, dbVars
<1>2. CASE ResolveFails(r)
  BY <1>2 DEF ResolveFails, dbVars
<1>3. CASE WalkOutbound(r)
  BY <1>3 DEF WalkOutbound, dbVars
<1>4. CASE Finish(r)
  BY <1>4 DEF Finish, dbVars
<1>5. CASE ReplyFails(r)
  BY <1>5 DEF ReplyFails, dbVars
<1>6. CASE OutboundOk(r)
  BY <1>6 DEF OutboundOk, dbVars
<1>7. CASE OutboundFails(r)
  BY <1>7 DEF OutboundFails, dbVars
<1>8. CASE BeginUnit(r)
  BY <1>8 DEF BeginUnit, dbVars
<1>9. CASE CheckpointFails(r)
  BY <1>9 DEF CheckpointFails, dbVars
<1>10. CASE ClaimNew(r)
  BY <1>10 DEF ClaimNew, WriteLedger, dbVars
<1>11. CASE ClaimReplay(r)
  BY <1>11 DEF ClaimReplay, dbVars
<1>12. CASE ClaimInProgress(r)
  BY <1>12 DEF ClaimInProgress, dbVars
<1>13. CASE AcquireNext(r)
  BY <1>13 DEF AcquireNext, dbVars
<1>14. CASE Acquired(r)
  BY <1>14 DEF Acquired, dbVars
<1>15. CASE LockTimeout(r)
  BY <1>15 DEF LockTimeout, dbVars
<1>16. CASE RunSteps(r)
  BY <1>16 DEF RunSteps, WriteLedger, dbVars
<1>17. CASE RunCompensation(r)
  BY <1>17 DEF RunCompensation, WriteLedger, dbVars
<1>18. CASE RecordReply(r)
  BY <1>18 DEF RecordReply, WriteLedger, dbVars
<1>19. CASE BodyFails(r)
  BY <1>19 DEF BodyFails, dbVars
<1>20. CASE Commit(r)
  BY <1>20
<1>21. CASE CommitFails(r)
  BY <1>21 DEF CommitFails, dbVars
<1>22. CASE CommitLost(r)
  BY <1>22
<1>23. CASE Redo(r)
  BY <1>23 DEF Redo, UndoCall, dbVars
<1>24. CASE Undo(r)
  BY <1>24 DEF Undo, UndoCall, dbVars
<1>25. CASE Judge(r)
  BY <1>25 DEF Judge, dbVars
<1>26. CASE Retry(r)
  BY <1>26 DEF Retry, dbVars
<1>27. CASE Settle(r)
  BY <1>27 DEF Settle, dbVars
<1>28. CASE Crash(r)
  BY <1>28 DEF Crash, dbVars
<1> QED BY <1>1, <1>2, <1>3, <1>4, <1>5, <1>6, <1>7, <1>8, <1>9, <1>10, <1>11, <1>12, <1>13, <1>14,
      <1>15, <1>16, <1>17, <1>18, <1>19, <1>20, <1>21, <1>22, <1>23, <1>24, <1>25, <1>26, <1>27,
      <1>28 DEF Step

\* A run whose work is complete is not about to claim or to call.
LEMMA CompleteEnds ==
  ASSUME TypeOK, NEW r \in Runs, Control(r), Progress(r), Complete(r), pc[r] \in {"claim", "call"},
         pc[r] = "claim" => unit[r] \in {"tx", "claim"}
  PROVE  FALSE
<1>1. seg[r] \in SegIx /\ sent[r][seg[r]] = 0 /\ (IsTx(seg[r]) => db[r][seg[r]] = 0)
  BY DEF Control, Exec, Progress, Landed, Ended
<1> QED BY <1>1 DEF Complete

\* A step that commits nothing keeps what the ledger knows of its run.
LEMMA KeptQuiet ==
  ASSUME Transactional, TypeOK, ControlInv, MemoryInv, NEW r \in Runs, Keyed(r), Row(r), Progress(r),
         Replays(r), Kept(r), Step(r) \/ Crash(r), ~Commit(r), ~CommitLost(r)
  PROVE  Kept(r)'
<1>0. Control(r) /\ Memory(r) /\ KeyOf[r] \in Keys
  BY KeyType DEF ControlInv, MemoryInv, Keyed
<1>a. pc[r] \in {"claim", "call"} => ~Complete(r)
  BY <1>0, CompleteEnds DEF Memory
<1>b. UNCHANGED <<ledger, db, undone>>
  BY QuietDb
<1>c. sent' = sent => Complete(r)' = Complete(r)
  BY <1>b DEF Complete
<1> USE <1>0, <1>a, <1>b, <1>c, SegmentFacts DEF TypeOK, PlaceTypes, ClaimTypes, DbTypes, Control,
   Memory, Exec, BodyLabels, Row, Replays, Kept, Writes, Recorded, IsLast, Standing, Named
<1>1. CASE WalkTransaction(r)
  BY <1>1 DEF WalkTransaction, EnterUnit, Goto, ctlVars, claimVars, dbVars, worldVars, IsTx
<1>2. CASE ResolveFails(r)
  BY <1>2 DEF ResolveFails, Goto, ctlVars, claimVars, dbVars, worldVars, IsTx
<1>3. CASE WalkOutbound(r)
  BY <1>3 DEF WalkOutbound, EnterUnit, Goto, NeedsClaim, ctlVars, claimVars, dbVars, worldVars,
     IsTx
<1>4. CASE Finish(r)
  BY <1>4 DEF Finish, EnterUnit, Goto, ctlVars, claimVars, dbVars, worldVars, IsTx
<1>5. CASE ReplyFails(r)
  BY <1>5 DEF ReplyFails, Goto, ctlVars, claimVars, dbVars, worldVars, IsTx
<1>6. CASE OutboundOk(r)
  BY <1>6 DEF OutboundOk, Goto, ctlVars, claimVars, dbVars, worldVars, IsTx
<1>7. CASE OutboundFails(r)
  BY <1>7 DEF OutboundFails, EnterUnit, Goto, ctlVars, claimVars, dbVars, worldVars, IsTx
<1>8. CASE BeginUnit(r)
  BY <1>8 DEF BeginUnit, StartAttempt, BodyStart, Goto, ctlVars, claimVars, dbVars, worldVars,
     IsTx
<1>9. CASE CheckpointFails(r)
  BY <1>9 DEF CheckpointFails, StartAttempt, BodyStart, BeforeAnyEffect, Goto, ctlVars,
     claimVars, dbVars, worldVars, IsTx
<1>10. CASE ClaimNew(r)
  BY <1>10 DEF ClaimNew, Goto, WriteLedger, ctlVars, claimVars, dbVars, worldVars, IsTx
<1>11. CASE ClaimReplay(r)
  <2> DEFINE e == ledger[KeyOf[r]]
  <2>1. e \in Entries /\ e.st = "applied" /\ replayOf'[r] = e.by
    BY <1>11 DEF ClaimReplay
  <2>2. e = Entry("applied", e.by)
    BY <2>1 DEF Entries, Entry
  <2>3. e.by # r
    BY <1>11, <2>2 DEF ClaimReplay
  <2>4. /\ pc[r] = "claim" /\ pc'[r] = "commit" /\ Complete(r)' = Complete(r)
        /\ UNCHANGED <<seg, unit, claimed, saved, row, ledger, db, undone>>
    BY <1>11 DEF ClaimReplay, Goto, claimVars, dbVars, worldVars
  <2>5. /\ ~claimed'[r] /\ replayOf'[r] # r /\ ledger'[KeyOf[r]] = Entry("applied", replayOf'[r])
        /\ replayOf'[r] # NoRun
    BY <1>11, <2>1, <2>2, <2>3, <2>4, ReplayNamed
  <2>6. Writes(r)'
    BY <2>4, <2>5
  <2>7. Standing(r)' = Standing(r) /\ Recorded(r)' = FALSE
    BY <2>4, <2>5
  <2> HIDE DEF e, Writes, Standing, Recorded
  <2> QED BY <2>4, <2>5, <2>6, <2>7
<1>12. CASE ClaimInProgress(r)
  BY <1>12 DEF ClaimInProgress, Goto, EndTx, ctlVars, claimVars, dbVars, worldVars, IsTx
<1>13. CASE AcquireNext(r)
  BY <1>13 DEF AcquireNext, ctlVars, claimVars, dbVars, worldVars, IsTx
<1>14. CASE Acquired(r)
  BY <1>14 DEF Acquired, Goto, ctlVars, claimVars, dbVars, worldVars, IsTx
<1>15. CASE LockTimeout(r)
  BY <1>15 DEF LockTimeout, CallFails, AfterRollback, Goto, EndTx, ctlVars, claimVars, dbVars,
     worldVars, IsTx
<1>16. CASE RunSteps(r)
  BY <1>16 DEF RunSteps, Goto, WriteLedger, ctlVars, claimVars, dbVars, worldVars, IsTx
<1>17. CASE RunCompensation(r)
  BY <1>17 DEF RunCompensation, Goto, WriteLedger, ctlVars, claimVars, dbVars, worldVars, IsTx
<1>18. CASE RecordReply(r)
  BY <1>18 DEF RecordReply, Goto, WriteLedger, ctlVars, claimVars, dbVars, worldVars, IsTx
<1>19. CASE BodyFails(r)
  BY <1>19 DEF BodyFails, CallFails, AfterRollback, Goto, EndTx, ctlVars, claimVars, dbVars,
     worldVars, IsTx
<1>20. CASE Commit(r)
  BY <1>20
<1>21. CASE CommitFails(r)
  BY <1>21 DEF CommitFails, CallFails, AfterRollback, Goto, EndTx, ctlVars, claimVars, dbVars,
     worldVars, IsTx
<1>22. CASE CommitLost(r)
  BY <1>22
<1>23. CASE Redo(r)
  BY <1>23 DEF Redo, BodyStart, Goto, UndoCall, ctlVars, claimVars, dbVars, worldVars, IsTx
<1>24. CASE Undo(r)
  BY <1>24 DEF Undo, Goto, UndoCall, ctlVars, claimVars, dbVars, worldVars, IsTx
<1>25. CASE Judge(r)
  BY <1>25 DEF Judge, Goto, Retries, ctlVars, claimVars, dbVars, worldVars, IsTx
<1>26. CASE Retry(r)
  BY <1>26 DEF Retry, StartAttempt, BodyStart, Goto, ctlVars, claimVars, dbVars, worldVars, IsTx
<1>27. CASE Settle(r)
  BY <1>27 DEF Settle, AfterUnit, Goto, ctlVars, claimVars, dbVars, worldVars, IsTx
<1>28. CASE Crash(r)
  BY <1>28 DEF Crash, Goto, EndTx, ctlVars, claimVars, dbVars, worldVars, IsTx
<1> QED BY <1>1, <1>2, <1>3, <1>4, <1>5, <1>6, <1>7, <1>8, <1>9, <1>10, <1>11, <1>12, <1>13, <1>14,
      <1>15, <1>16, <1>17, <1>18, <1>19, <1>20, <1>21, <1>22, <1>23, <1>24, <1>25, <1>26, <1>27,
      <1>28 DEF Step

-----------------------------------------------------------------------------
(* Commits. *)

\* What a commit changes, heard of or not.
LEMMA CommitChanges ==
  ASSUME TypeOK, NEW r \in Runs, Commit(r) \/ CommitLost(r)
  PROVE  /\ pc[r] = "commit" /\ pc'[r] \in {"settle", "undo"} /\ row'[r] = "none"
         /\ ledger' = Committed(r) /\ ApplyUnit(r)
         /\ UNCHANGED <<seg, unit, claimed, saved, replayOf, sent>>
  BY DEF Commit, CommitLost, TypeOK, PlaceTypes, DbTypes, EndTx, Goto, claimVars, worldVars

\* A commit of a replay changes nothing but the place of its run.
LEMMA ReplayCommit ==
  ASSUME SagaInv, NEW r \in Runs, Keyed(r), Commit(r) \/ CommitLost(r), replayOf[r] # NoRun
  PROVE  row[r] = "none" /\ UNCHANGED <<ledger, db, undone>>
<1>1. TypeOK /\ Row(r) /\ Kept(r) /\ Replays(r)
  BY DEF SagaInv, LocalInv, OwnershipInv, DoneInv, KeptInv
<1>2. row[r] = "none"
  BY <1>1 DEF Kept, Row
<1> QED BY <1>1, <1>2, CommitChanges DEF Committed, ApplyUnit, Replays

\* Any other commit of a keyed run has its row, or is that of a key that is its own already.
LEMMA OwnCommit ==
  ASSUME Transactional, SagaInv, NEW r \in Runs, Keyed(r), Commit(r) \/ CommitLost(r), replayOf[r] = NoRun
  PROVE  /\ row[r] = "none" => saved[r] /\ Ours(r) /\ unit[r] \in {"tx", "claim"}
         /\ row[r] = "pending" => ledger[KeyOf[r]].st = "free" /\ unit[r] \in {"tx", "claim"}
         /\ row[r] = "applied" => /\ ledger[KeyOf[r]].st = "free" \/ Ours(r)
                                  /\ unit[r] = "record" \/ (unit[r] = "tx" /\ IsLast(r))
         /\ row[r] = "free" => Ours(r) /\ unit[r] = "compensate"
<1>1. /\ TypeOK /\ Row(r) /\ Owns(r) /\ Kept(r) /\ Control(r) /\ Memory(r) /\ pc[r] = "commit"
      /\ unit[r] \in {"tx", "claim", "compensate", "record"}
  BY CommitChanges DEF SagaInv, LocalInv, OwnershipInv, DoneInv, KeptInv, ControlInv, MemoryInv, Control, Exec
<1>2. claimed[r]
  BY <1>1 DEF Memory
<1>3. saved[r] => Ours(r)
  BY <1>1, <1>2 DEF Owns, Durable
<1>4. ~saved[r] => ledger[KeyOf[r]].st = "free" /\ row[r] \in {"pending", "applied"}
  BY <1>1, <1>2 DEF Owns, Row, Tentative
<1>5. saved[r] \in BOOLEAN
  BY <1>1 DEF TypeOK, ClaimTypes
<1>6. row[r] = "none" => unit[r] \in {"tx", "claim"}
  BY <1>1 DEF Kept, Writes
<1>7. row[r] = "pending" => unit[r] \in {"tx", "claim"}
  BY <1>1 DEF Kept, Writes
<1> QED BY <1>1, <1>3, <1>4, <1>5, <1>6, <1>7 DEF Row, Kept, Writes

\* A commit keeps what the ledger knows of its run.
LEMMA KeptCommit ==
  ASSUME Transactional, EveryCallCompensates, SagaInv, NEW r \in Runs, Keyed(r), Commit(r) \/ CommitLost(r)
  PROVE  Kept(r)'
<1>1. /\ TypeOK /\ Kept(r) /\ Control(r) /\ Progress(r) /\ KeyOf[r] \in Keys /\ Replays(r)
      /\ ledger \in [Keys -> Entries] /\ Row(r)
  BY KeyType DEF SagaInv, LocalInv, DoneInv, KeptInv, ControlInv, Keyed, TypeOK, DbTypes, OwnershipInv
<1>2. Progress(r)' /\ db'[r] \in Tally /\ db[r] \in Tally
  BY ProgressStep, TypeStep DEF SagaInv, LocalInv, DoneInv, Step, TypeOK, DbTypes
<1>3. /\ pc[r] = "commit" /\ pc'[r] \in {"settle", "undo"} /\ row'[r] = "none"
      /\ UNCHANGED <<seg, unit, claimed, saved, replayOf, sent>>
  BY <1>1, CommitChanges
<1>4. ledger'[KeyOf[r]] = IF row[r] = "none" THEN ledger[KeyOf[r]] ELSE Entry(row[r], r)
  BY <1>1, CommitChanges DEF Committed
<1>5. Writes(r)'
  BY <1>3 DEF Writes
<1>6. CASE replayOf[r] # NoRun
  <2>1. UNCHANGED <<ledger, db, undone>>
    BY <1>6, ReplayCommit
  <2>2. Recorded(r)' = FALSE
    BY <1>1, <1>3, <1>6 DEF Recorded, Replays
  <2> QED BY <1>1, <1>3, <1>5, <2>1, <2>2 DEF Kept, Standing, Named, Complete
<1>7. CASE replayOf[r] = NoRun /\ unit[r] = "compensate"
  <2>1. row[r] = "free"
    BY <1>1, <1>3, <1>7 DEF Kept, Writes
  <2>2. seg[r] \in SegIx /\ ~IsTx(seg[r])
    BY <1>1, <1>3, <1>7 DEF Control, Exec
  <2>3. undone'[r] # {}
    <3>1. Compensates(r)
      BY <2>2 DEF EveryCallCompensates, Compensates
    <3>2. undone' = [undone EXCEPT ![r] = @ \cup {seg[r]}]
      BY <1>1, <1>7, <3>1, CommitChanges DEF ApplyUnit
    <3> QED BY <1>1, <3>2 DEF TypeOK, DbTypes
  <2>4. ledger'[KeyOf[r]].st = "free"
    BY <1>4, <2>1, EntryFields
  <2>5. Recorded(r)' = FALSE /\ Standing(r)' = FALSE
    BY <1>3, <1>7, <2>3 DEF Recorded, Standing
  <2>6. ledger'[KeyOf[r]] # Entry("applied", r)
    BY <2>4, EntryFields
  <2> QED BY <1>3, <1>5, <1>7, <2>5, <2>6 DEF Kept
<1>8. CASE replayOf[r] = NoRun /\ unit[r] # "compensate"
  <2>1. Named(r)'
    BY <1>1, <1>3, <1>4, <1>8, OwnCommit DEF Named, Ours, TypeOK, DbTypes
  <2>2. Recorded(r)' => ledger'[KeyOf[r]] = Entry("applied", r)
    BY <1>1, <1>3, <1>4, <1>8 DEF Recorded, IsLast, Kept, Writes
  <2>3. ASSUME ledger'[KeyOf[r]] = Entry("applied", r) PROVE Complete(r)'
    <3>1. row[r] = "applied"
      BY <1>1, <1>4, <1>8, <2>3, OwnCommit, EntryFields DEF Ours, TypeOK, DbTypes
    <3>2. unit[r] = "record" \/ (unit[r] = "tx" /\ IsLast(r))
      BY <1>8, <3>1, OwnCommit
    <3>3. CASE unit[r] = "record"
      <4>1. seg'[r] = N + 1
        BY <1>1, <1>3, <3>3 DEF Control, Exec
      <4> QED BY <1>2, <4>1, SegmentFacts DEF Progress, Complete
    <3>4. CASE unit[r] = "tx" /\ IsLast(r)
      <4>0. seg[r] = N /\ IsTx(N) /\ N \in SegIx
        BY <1>1, <1>3, <3>4, SegmentFacts DEF IsLast, Control, Exec
      <4>a. db' = [db EXCEPT ![r][seg[r]] = @ + 1]
        BY <1>1, <1>8, <3>4, CommitChanges DEF ApplyUnit
      <4>1. seg'[r] = N /\ IsTx(N) /\ db'[r][N] = db[r][N] + 1
        BY <1>1, <1>3, <4>0, <4>a DEF TypeOK, DbTypes, Tally
      <4>2. db'[r][N] = 1
        BY <1>2, <4>1, SegmentFacts DEF Progress, Tally
      <4> QED BY <1>2, <4>1, <4>2, SegmentFacts DEF Progress, Complete
    <3> QED BY <3>2, <3>3, <3>4
  <2> QED BY <1>3, <1>5, <1>8, <2>1, <2>2, <2>3 DEF Kept
<1> QED BY <1>6, <1>7, <1>8

-----------------------------------------------------------------------------
(* The invariant. *)

\* A step that changes the row of a key is a commit of its only owner, which writes its own name.
LEMMA KeyWritten ==
  ASSUME Transactional, SagaInv, NEW r \in Runs, Step(r) \/ Crash(r), NEW k \in Keys, ledger'[k] # ledger[k]
  PROVE  /\ Keyed(r) /\ KeyOf[r] = k /\ Owner(r) /\ (ledger[k].st = "free" \/ Ours(r))
         /\ ledger'[k] = Entry(row[r], r) /\ row[r] # "none"
<1>1. TypeOK /\ Row(r) /\ Owns(r)
  BY DEF SagaInv, LocalInv, OwnershipInv
<1>2. row[r] # "none" /\ k = KeyOf[r]
  BY <1>1, LedgerStep
<1>3. Owner(r) /\ Keyed(r)
  BY <1>1, <1>2, WriterOwns DEF SagaInv, LocalInv
<1>4. Commit(r) \/ CommitLost(r)
  BY QuietDb
<1>5. ledger'[k] = Entry(row[r], r)
  BY <1>1, <1>2, <1>4, CommitChanges DEF Committed, TypeOK, DbTypes
<1> QED BY <1>2, <1>3, <1>5, <1>1 DEF Owner, Owns

\* No step of a run touches what the ledger knows of another.
LEMMA KeptByOthers ==
  ASSUME Transactional, SagaInv, NEW r \in Runs, Step(r) \/ Crash(r), NEW q \in Runs, q # r, Keyed(q)
  PROVE  Kept(q)'
<1>1. Kept(q) /\ KeyOf[q] \in Keys /\ UNCHANGED Of(q) /\ UNCHANGED Done(q)
  BY KeyType, OthersKeep, OthersKeepDone DEF SagaInv, KeptInv, LocalInv, Keyed
<1>2. Writes(q)' /\ Standing(q)' = Standing(q) /\ Recorded(q)' = Recorded(q) /\ Complete(q)' = Complete(q)
  BY <1>1 DEF Kept, Of, Done, Writes, Standing, Recorded, IsLast, Complete
<1>3. CASE ledger'[KeyOf[q]] = ledger[KeyOf[q]]
  BY <1>1, <1>2, <1>3 DEF Kept, Of, Named
<1>4. CASE ledger'[KeyOf[q]] # ledger[KeyOf[q]]
  <2>1. /\ ledger[KeyOf[q]].st = "free" \/ ledger[KeyOf[q]] = Entry("pending", r)
        /\ ledger'[KeyOf[q]] = Entry(row[r], r)
    BY <1>1, <1>4, KeyWritten DEF Ours
  <2>2. replayOf[q] = NoRun
    <3>1. replayOf[q] \in Runs \cup {NoRun}
      BY DEF SagaInv, LocalInv, TypeOK, ClaimTypes
    <3> QED BY <1>1, <2>1, <3>1, EntryFields DEF Kept
  <2>3. ~Standing(q) /\ ~Recorded(q)
    BY <1>1, <1>1, <2>1, EntryFields DEF Kept, Named
  <2>4. ledger'[KeyOf[q]] # Entry("applied", q)
    BY <1>1, <2>1, EntryFields
  <2> QED BY <1>1, <1>2, <2>2, <2>3, <2>4 DEF Kept, Of
<1> QED BY <1>3, <1>4

\* A run without a key claims nothing.
LEMMA KeylessStep ==
  ASSUME LocalInv, NEW r \in Runs, ~Keyed(r), replayOf[r] = NoRun, pc[r] # "replayed", Step(r) \/ Crash(r)
  PROVE  replayOf'[r] = NoRun /\ pc'[r] # "replayed"
<1>0. Control(r) /\ pc[r] # "claim"
  BY DEF LocalInv, ControlInv, Control
<1> USE <1>0 DEF LocalInv, TypeOK, PlaceTypes, ClaimTypes
<1>1. CASE WalkTransaction(r)
  BY <1>1 DEF WalkTransaction, EnterUnit, Goto, ctlVars, claimVars
<1>2. CASE ResolveFails(r)
  BY <1>2 DEF ResolveFails, Goto, ctlVars, claimVars
<1>3. CASE WalkOutbound(r)
  BY <1>3 DEF WalkOutbound, EnterUnit, Goto, ctlVars, claimVars
<1>4. CASE Finish(r)
  BY <1>4 DEF Finish, EnterUnit, Goto, ctlVars, claimVars
<1>5. CASE ReplyFails(r)
  BY <1>5 DEF ReplyFails, Goto, ctlVars, claimVars
<1>6. CASE OutboundOk(r)
  BY <1>6 DEF OutboundOk, Goto, ctlVars, claimVars
<1>7. CASE OutboundFails(r)
  BY <1>7 DEF OutboundFails, EnterUnit, Goto, ctlVars, claimVars
<1>8. CASE BeginUnit(r)
  BY <1>8 DEF BeginUnit, StartAttempt, BodyStart, Goto, ctlVars, claimVars
<1>9. CASE CheckpointFails(r)
  BY <1>9 DEF CheckpointFails, StartAttempt, BodyStart, Goto, ctlVars, claimVars
<1>10. CASE ClaimNew(r)
  BY <1>10 DEF ClaimNew, Goto, ctlVars, claimVars
<1>11. CASE ClaimReplay(r)
  BY <1>11 DEF ClaimReplay, Goto, ctlVars, claimVars
<1>12. CASE ClaimInProgress(r)
  BY <1>12 DEF ClaimInProgress, Goto, ctlVars, claimVars
<1>13. CASE AcquireNext(r)
  BY <1>13 DEF AcquireNext, ctlVars, claimVars
<1>14. CASE Acquired(r)
  BY <1>14 DEF Acquired, Goto, ctlVars, claimVars
<1>15. CASE LockTimeout(r)
  BY <1>15 DEF LockTimeout, CallFails, AfterRollback, Goto, ctlVars, claimVars
<1>16. CASE RunSteps(r)
  BY <1>16 DEF RunSteps, Goto, ctlVars, claimVars
<1>17. CASE RunCompensation(r)
  BY <1>17 DEF RunCompensation, Goto, ctlVars, claimVars
<1>18. CASE RecordReply(r)
  BY <1>18 DEF RecordReply, Goto, ctlVars, claimVars
<1>19. CASE BodyFails(r)
  BY <1>19 DEF BodyFails, CallFails, AfterRollback, Goto, ctlVars, claimVars
<1>20. CASE Commit(r)
  BY <1>20 DEF Commit, Goto, ctlVars, claimVars
<1>21. CASE CommitFails(r)
  BY <1>21 DEF CommitFails, CallFails, AfterRollback, Goto, ctlVars, claimVars
<1>22. CASE CommitLost(r)
  BY <1>22 DEF CommitLost, Goto, ctlVars, claimVars
<1>23. CASE Redo(r)
  BY <1>23 DEF Redo, BodyStart, Goto, UndoCall, ctlVars, claimVars
<1>24. CASE Undo(r)
  BY <1>24 DEF Undo, Goto, UndoCall, ctlVars, claimVars
<1>25. CASE Judge(r)
  BY <1>25 DEF Judge, Goto, ctlVars, claimVars
<1>26. CASE Retry(r)
  BY <1>26 DEF Retry, StartAttempt, BodyStart, Goto, ctlVars, claimVars
<1>27. CASE Settle(r)
  <2>1. unit[r] \in {"tx", "claim", "compensate", "record"}
    BY <1>27 DEF Settle, Control, Exec
  <2>2. AfterUnit(r) = IF unit[r] = "tx" THEN "walk" ELSE IF unit[r] = "claim" THEN "call"
                       ELSE IF unit[r] = "compensate" THEN "failed" ELSE "done"
    BY <2>1 DEF AfterUnit
  <2> HIDE DEF AfterUnit
  <2> QED BY <1>27, <2>2 DEF Settle, Goto, claimVars
<1>28. CASE Crash(r)
  BY <1>28 DEF Crash, Goto, ctlVars, claimVars
<1> QED BY <1>1, <1>2, <1>3, <1>4, <1>5, <1>6, <1>7, <1>8, <1>9, <1>10, <1>11, <1>12, <1>13, <1>14,
      <1>15, <1>16, <1>17, <1>18, <1>19, <1>20, <1>21, <1>22, <1>23, <1>24, <1>25, <1>26, <1>27,
      <1>28 DEF Step

LEMMA KeptStep ==
  ASSUME Transactional, EveryCallCompensates, SagaInv, NEW r \in Runs, Step(r) \/ Crash(r)
  PROVE  KeptInv'
<1>1. ASSUME NEW q \in Runs, Keyed(q) PROVE Kept(q)'
  <2>1. CASE q # r
    BY <1>1, <2>1, KeptByOthers
  <2>2. CASE q = r /\ (Commit(r) \/ CommitLost(r))
    BY <1>1, <2>2, KeptCommit
  <2>3. CASE q = r /\ ~Commit(r) /\ ~CommitLost(r)
    BY <1>1, <2>3, KeptQuiet DEF SagaInv, LocalInv, OwnershipInv, DoneInv, KeptInv
  <2> QED BY <2>1, <2>2, <2>3
<1>2. ASSUME NEW q \in Runs, ~Keyed(q) PROVE replayOf'[q] = NoRun /\ pc'[q] # "replayed"
  <2>0. replayOf[q] = NoRun /\ pc[q] # "replayed"
    BY <1>2 DEF SagaInv, KeptInv
  <2>1. CASE q # r
    BY <2>0, <2>1, OthersKeep DEF SagaInv, LocalInv, Of
  <2>2. CASE q = r
    BY <1>2, <2>0, <2>2, KeylessStep DEF SagaInv
  <2> QED BY <2>1, <2>2
<1>3. ASSUME NEW k \in Keys, ledger'[k].st # "free" PROVE KeyOf[ledger'[k].by] = k
  <2>1. CASE ledger'[k] = ledger[k]
    BY <1>3, <2>1 DEF SagaInv, KeptInv
  <2>2. CASE ledger'[k] # ledger[k]
    BY <1>3, <2>2, KeyWritten, EntryFields
  <2> QED BY <2>1, <2>2
<1> QED BY <1>1, <1>2, <1>3 DEF KeptInv, Keyed

LEMMA InitKept == Init => KeptInv
<1> SUFFICES ASSUME Init PROVE KeptInv
  OBVIOUS
<1>1. ASSUME NEW r \in Runs, Keyed(r) PROVE Kept(r)
  <2>1. KeyOf[r] \in Keys /\ ledger[KeyOf[r]].st = "free"
    BY <1>1, KeyType DEF Init, Keyed, Entry
  <2>2. ~Standing(r) /\ ~Recorded(r)
    BY SegmentFacts DEF Init, Standing, Recorded
  <2>3. ledger[KeyOf[r]] # Entry("applied", r)
    BY <2>1, EntryFields
  <2> QED BY <2>2, <2>3 DEF Init, Kept, Writes
<1> QED BY <1>1 DEF Init, KeptInv, Entry

LEMMA SagaInvariant ==
  ASSUME Transactional, EveryCallCompensates
  PROVE  Spec => []SagaInv
<1>1. Init => SagaInv
  BY InitInv, InitDone, InitKept DEF SagaInv
<1>2. ASSUME SagaInv, NEW r \in Runs, Step(r) \/ Crash(r) PROVE SagaInv'
  BY <1>2, LocalStep, OwnershipStep, DoneStep, KeptStep DEF SagaInv
<1>3. ASSUME SagaInv, UNCHANGED vars PROVE SagaInv'
  <2>1. LocalInv' /\ OwnershipInv' /\ DoneInv'
    BY <1>3, StutterLocal, StutterOwnership, StutterDone DEF SagaInv
  <2>2. KeptInv'
    BY <1>3 DEF vars, SagaInv, KeptInv, Kept, Writes, Standing, Recorded, Named, IsLast, Complete
  <2> QED BY <2>1, <2>2 DEF SagaInv
<1>4. SagaInv /\ [Next]_vars => SagaInv'
  BY <1>2, <1>3 DEF Next, AllEnded
<1> QED BY <1>1, <1>4, PTL DEF Spec

-----------------------------------------------------------------------------
(* What follows. *)

\* Over a transactional ledger, if every outbound step that fails is undone, the work of at most one
\* run of a key stands (claimOnce, runOutbound, releaseIfClaimed), for any number of duplicates and
\* keys, any other saga, and any rollbacks, lost COMMITs, retries and crashes.
THEOREM WorkStandsOnce ==
  ASSUME Transactional, EveryCallCompensates
  PROVE  Spec => []EffectOncePerKey
<1>1. SagaInv => EffectOncePerKey
  <2> SUFFICES ASSUME SagaInv, NEW r \in Runs, NEW q \in Runs, SameKey(r, q), Standing(r), Standing(q)
               PROVE  FALSE
    BY DEF EffectOncePerKey
  <2>1. Keyed(r) /\ Keyed(q) /\ KeyOf[r] = KeyOf[q] /\ r # q
    BY DEF SameKey, Keyed
  <2>2. Named(r) /\ Named(q)
    BY <2>1 DEF SagaInv, KeptInv, Kept
  <2> QED BY <2>1, <2>2, EntryFields DEF Named
<1> QED BY <1>1, SagaInvariant, PTL

\* A run that answers or replays answers for complete work that its key records (recordIfClaimed,
\* finishAfterOutbound, claimOnce).
THEOREM AnswersAreGenuine ==
  ASSUME Transactional, EveryCallCompensates
  PROVE  Spec => []AnswerIsGenuine
<1>1. SagaInv => AnswerIsGenuine
  <2> SUFFICES ASSUME SagaInv, NEW r \in Runs
               PROVE  /\ pc[r] = "done" => Complete(r)
                      /\ pc[r] = "done" /\ Keyed(r) => ledger[KeyOf[r]] = Entry("applied", r)
                      /\ pc[r] = "replayed" =>
                           Complete(replayOf[r]) /\ ledger[KeyOf[r]] = Entry("applied", replayOf[r])
    BY DEF AnswerIsGenuine
  <2>1. ASSUME Keyed(r) PROVE KeyOf[r] \in Keys /\ Kept(r)
    BY <2>1, KeyType DEF SagaInv, KeptInv, Keyed
  <2>2. pc[r] = "done" => Complete(r)
    BY SegmentFacts DEF SagaInv, DoneInv, Progress, Complete
  <2>3. pc[r] = "done" /\ Keyed(r) => ledger[KeyOf[r]] = Entry("applied", r)
    BY <2>1 DEF Kept, Recorded
  <2>4. ASSUME pc[r] = "replayed"
        PROVE  Complete(replayOf[r]) /\ ledger[KeyOf[r]] = Entry("applied", replayOf[r])
    <3>1. Keyed(r)
      BY <2>4 DEF SagaInv, KeptInv
    <3>2. replayOf[r] \in Runs /\ ledger[KeyOf[r]] = Entry("applied", replayOf[r])
      BY <2>1, <2>4, <3>1 DEF Kept, SagaInv, LocalInv, TypeOK, ClaimTypes
    <3>3. KeyOf[replayOf[r]] = KeyOf[r]
      BY <2>1, <3>1, <3>2, EntryFields DEF SagaInv, KeptInv
    <3>4. Kept(replayOf[r])
      BY <3>1, <3>2, <3>3 DEF SagaInv, KeptInv, Keyed
    <3> QED BY <3>2, <3>3, <3>4 DEF Kept
  <2> QED BY <2>2, <2>3, <2>4
<1> QED BY <1>1, SagaInvariant, PTL

-----------------------------------------------------------------------------
(* The promise of the key. *)

keyView == <<KeyStatus, KeyHolder, KeyStanding, KeyAnswer>>

\* The answers that the labels of ended runs stand for.
LEMMA AnswerAt ==
  ASSUME NEW r \in Runs
  PROVE  /\ pc[r] \notin Ended => KeyAnswer[r] = "none"
         /\ pc'[r] \notin Ended => KeyAnswer'[r] = "none"
         /\ pc'[r] = "done" => KeyAnswer'[r] = "own"
         /\ pc'[r] = "replayed" => KeyAnswer'[r] = "replayed"
         /\ pc'[r] \in {"failed", "crashed"} => KeyAnswer'[r] = "error"
  BY DEF KeyAnswer, Ended

\* A run that has ended takes no step.
LEMMA NotEnded ==
  ASSUME NEW r \in Runs, Step(r) \/ Crash(r)
  PROVE  pc[r] \notin Ended
  BY DEF Ended, BodyLabels, Step, Crash, WalkTransaction, ResolveFails, WalkOutbound, Finish, ReplyFails,
     OutboundOk, OutboundFails, BeginUnit, CheckpointFails, ClaimNew, ClaimReplay, ClaimInProgress,
     AcquireNext, Acquired, LockTimeout, RunSteps, RunCompensation, RecordReply, BodyFails, Commit,
     CommitFails, CommitLost, Redo, Undo, Judge, Retry, Settle

\* A step of a run changes no other run's answer.
LEMMA AnswerOfOne ==
  ASSUME TypeOK, NEW r \in Runs, Step(r) \/ Crash(r)
  PROVE  KeyAnswer' = [KeyAnswer EXCEPT ![r] = KeyAnswer'[r]]
<1>1. ASSUME NEW q \in Runs, q # r PROVE KeyAnswer'[q] = KeyAnswer[q]
  <2>1. pc'[q] = pc[q]
    BY <1>1, OthersKeep DEF Of
  <2> QED BY <2>1 DEF KeyAnswer
<1>2. KeyAnswer = [q \in Runs |-> KeyAnswer[q]] /\ KeyAnswer' = [q \in Runs |-> KeyAnswer'[q]]
  BY DEF KeyAnswer
<1> HIDE DEF KeyAnswer
<1> QED BY <1>1, <1>2

\* Only the run that the ledger names has work standing under a key.
LEMMA StandingIsHeld ==
  ASSUME SagaInv, NEW k \in Keys, NEW q \in KeyStanding[k]
  PROVE  q \in Runs /\ KeyOf[q] = k /\ Standing(q) /\ ledger[k].st # "free" /\ ledger[k].by = q
<1>1. q \in Runs /\ KeyOf[q] = k /\ Standing(q)
  BY DEF KeyStanding
<1>2. Named(q)
  BY <1>1, RunsAssumption DEF SagaInv, KeptInv, Kept, Keyed
<1> QED BY <1>1, <1>2, EntryFields DEF Named

\* A commit under a key that is free or the run's own changes the work of that run alone.
LEMMA CommitStanding ==
  ASSUME SagaInv, NEW r \in Runs, Keyed(r), Commit(r) \/ CommitLost(r),
         ledger[KeyOf[r]].st = "free" \/ Ours(r)
  PROVE  /\ Standing(r)' => KeyStanding' = [KeyStanding EXCEPT ![KeyOf[r]] = {r}]
         /\ ~Standing(r)' => KeyStanding' = [KeyStanding EXCEPT ![KeyOf[r]] = {}]
<1>1. ASSUME NEW q \in Runs, q # r PROVE Standing(q)' = Standing(q)
  BY <1>1, OthersKeepDone DEF SagaInv, LocalInv, Step, Done, Standing
<1>2. ASSUME NEW q \in Runs, q # r, KeyOf[q] = KeyOf[r] PROVE ~Standing(q)
  <2> SUFFICES ASSUME Standing(q) PROVE FALSE
    OBVIOUS
  <2>1. KeyOf[r] \in Keys /\ q \in KeyStanding[KeyOf[r]]
    BY <1>2, KeyType DEF Keyed, KeyStanding
  <2> QED BY <1>2, <2>1, StandingIsHeld, EntryFields DEF Ours
<1> DEFINE new == [KeyStanding EXCEPT ![KeyOf[r]] = {q \in {r} : Standing(q)'}]
<1>3. KeyStanding' = new
  <2>1. KeyStanding' = [k \in Keys |-> {q \in Runs : KeyOf[q] = k /\ Standing(q)'}]
    BY DEF KeyStanding
  <2>2. ASSUME NEW k \in Keys PROVE {q \in Runs : KeyOf[q] = k /\ Standing(q)'} = new[k]
    <3>1. CASE k = KeyOf[r]
      BY <1>1, <1>2, <3>1 DEF KeyStanding
    <3>2. CASE k # KeyOf[r]
      BY <1>1, <3>2 DEF KeyStanding
    <3> QED BY <3>1, <3>2
  <2> QED BY <2>1, <2>2 DEF KeyStanding
<1> QED BY <1>3

\* What a commit of a unit makes of the work that stands.
LEMMA CommitApplies ==
  ASSUME TypeOK, NEW r \in Runs, Control(r), Progress(r), EveryCallCompensates, replayOf[r] = NoRun,
         Commit(r) \/ CommitLost(r)
  PROVE  /\ unit[r] = "tx" => Standing(r)'
         /\ unit[r] = "compensate" => ~Standing(r)'
         /\ unit[r] \in {"claim", "record"} => UNCHANGED <<db, undone>>
<1>1. /\ pc[r] = "commit" /\ ApplyUnit(r) /\ unit[r] \in {"tx", "claim", "compensate", "record"}
      /\ unit[r] = "tx" => seg[r] \in SegIx
      /\ unit[r] = "compensate" => seg[r] \in SegIx /\ ~IsTx(seg[r])
  BY CommitChanges DEF Control, Exec
<1>2. ASSUME unit[r] = "tx" PROVE Standing(r)'
  <2>1. db' = [db EXCEPT ![r][seg[r]] = @ + 1] /\ undone' = undone /\ undone[r] = {}
    BY <1>1, <1>2 DEF ApplyUnit, Progress
  <2>2. db'[r][seg[r]] = db[r][seg[r]] + 1 /\ db[r][seg[r]] \in Nat
    BY <1>1, <1>2, <2>1 DEF TypeOK, DbTypes, Tally
  <2> QED BY <1>1, <1>2, <2>1, <2>2 DEF Standing
<1>3. ASSUME unit[r] = "compensate" PROVE ~Standing(r)'
  <2>1. Compensates(r)
    BY <1>1, <1>3 DEF EveryCallCompensates, Compensates
  <2>2. undone' = [undone EXCEPT ![r] = @ \cup {seg[r]}]
    BY <1>1, <1>3, <2>1 DEF ApplyUnit
  <2> QED BY <2>2 DEF Standing, TypeOK, DbTypes
<1>4. unit[r] \in {"claim", "record"} => UNCHANGED <<db, undone>>
  BY <1>1 DEF ApplyUnit
<1> QED BY <1>2, <1>3, <1>4

\* A commit takes the key, adds to the work that stands under it, applies it or gives it back.
LEMMA CommitKeepsPromise ==
  ASSUME Transactional, EveryCallCompensates, \E i \in SegIx : IsTx(i), SagaInv,
         NEW r \in Runs, Commit(r) \/ CommitLost(r)
  PROVE  [Promise!Next]_keyView
<1>1. TypeOK /\ Control(r) /\ Progress(r) /\ Row(r)
  BY DEF SagaInv, LocalInv, ControlInv, DoneInv, OwnershipInv
<1>2. KeyAnswer' = KeyAnswer
  <2>1. pc[r] \notin Ended /\ pc'[r] \notin Ended
    BY <1>1, CommitChanges DEF Ended
  <2>2. KeyAnswer'[r] = KeyAnswer[r]
    BY <2>1, AnswerAt
  <2>3. KeyAnswer = [q \in Runs |-> KeyAnswer[q]]
    BY DEF KeyAnswer
  <2> HIDE DEF KeyAnswer
  <2> QED BY <1>1, <2>2, <2>3, AnswerOfOne DEF Step
<1>3. ASSUME UNCHANGED <<ledger, db, undone>> PROVE UNCHANGED keyView
  BY <1>2, <1>3 DEF keyView, KeyStatus, KeyHolder, KeyStanding, Standing
<1>4. CASE ~Keyed(r)
  <2>1. row[r] = "none"
    BY <1>1, <1>4, WriterOwns DEF SagaInv, LocalInv, TypeOK, DbTypes
  <2>2. ASSUME NEW q \in Runs, Keyed(q) PROVE Standing(q)' = Standing(q)
    BY <1>4, <2>2, OthersKeepDone DEF SagaInv, LocalInv, Step, Done, Standing
  <2>3. ledger' = ledger
    BY <1>1, <2>1, CommitChanges DEF Committed
  <2>4. KeyStanding' = KeyStanding
    BY <2>2, RunsAssumption DEF KeyStanding, Keyed
  <2> QED BY <1>2, <2>3, <2>4 DEF keyView, KeyStatus, KeyHolder
<1>5. CASE Keyed(r) /\ replayOf[r] # NoRun
  BY <1>3, <1>5, ReplayCommit
<1>6. CASE Keyed(r) /\ replayOf[r] = NoRun
  <2> DEFINE k == KeyOf[r]
  <2>1. k \in Keys /\ k \in Keys \cap {KeyOf[r]} /\ ledger \in [Keys -> Entries]
    BY <1>1, <1>6, KeyType DEF Keyed, TypeOK, DbTypes
  <2>2. ledger[k].st = "free" \/ Ours(r)
    BY <1>1, <1>6, OwnCommit DEF TypeOK, DbTypes
  <2>3. Standing(r)' => KeyStanding' = [KeyStanding EXCEPT ![k] = {r}]
    BY <1>6, <2>2, CommitStanding
  <2>4. ~Standing(r)' => KeyStanding' = [KeyStanding EXCEPT ![k] = {}]
    BY <1>6, <2>2, CommitStanding
  <2>5. ledger[k].st = "free" => KeyStatus[k] = "free" /\ KeyStanding[k] = {}
    BY <2>1, StandingIsHeld DEF KeyStatus
  <2>6. Ours(r) => KeyStatus[k] = "taken" /\ KeyHolder[k] = r
    BY <2>1, EntryFields DEF Ours, KeyStatus, KeyHolder
  <2>7. row[r] # "none" =>
          /\ KeyStatus' = [KeyStatus EXCEPT ![k] = IF row[r] = "pending" THEN "taken" ELSE row[r]]
          /\ KeyHolder' = [KeyHolder EXCEPT ![k] = IF row[r] = "free" THEN NoRun ELSE r]
    <3> SUFFICES ASSUME row[r] # "none"
                 PROVE  /\ KeyStatus' = [KeyStatus EXCEPT ![k] = IF row[r] = "pending" THEN "taken" ELSE row[r]]
                        /\ KeyHolder' = [KeyHolder EXCEPT ![k] = IF row[r] = "free" THEN NoRun ELSE r]
      OBVIOUS
    <3>1. ledger' = [ledger EXCEPT ![k] = Entry(row[r], r)]
      BY <1>1, CommitChanges DEF Committed
    <3> DEFINE e == Entry(row[r], r)
    <3>2. e.st = row[r] /\ e.by = IF row[r] = "free" THEN NoRun ELSE r
      BY DEF Entry
    <3> HIDE DEF e
    <3>3. ledger' = [ledger EXCEPT ![k] = e]
      BY <3>1 DEF e
    <3>4. KeyStatus' = [KeyStatus EXCEPT ![k] = IF row[r] = "pending" THEN "taken" ELSE row[r]]
      BY <2>1, <3>2, <3>3 DEF KeyStatus
    <3>5. KeyHolder' = [KeyHolder EXCEPT ![k] = IF row[r] = "free" THEN NoRun ELSE r]
      BY <2>1, <3>2, <3>3 DEF KeyHolder
    <3> QED BY <3>4, <3>5
  <2>8. /\ unit[r] = "tx" => Standing(r)'
        /\ unit[r] = "compensate" => ~Standing(r)'
        /\ unit[r] \in {"claim", "record"} => UNCHANGED <<db, undone>>
    BY <1>1, <1>6, CommitApplies
  <2>9. row[r] = "none" => ledger' = ledger
    BY <1>1, CommitChanges DEF Committed
  <2>10. ASSUME KeyStanding' = [KeyStanding EXCEPT ![k] = {r}] \/ KeyStanding' = [KeyStanding EXCEPT ![k] = {}]
         PROVE  \E work \in {{}, {r}} : KeyStanding' = [KeyStanding EXCEPT ![k] = work]
    BY <2>10
  <2> DEFINE does == Promise!Take(r, k) \/ Promise!Work(r, k) \/ Promise!GiveBack(r, k) \/ Promise!Apply(r, k)
  <2> SUFFICES does \/ UNCHANGED keyView
    BY <2>1 DEF Promise!Next
  <2>11. CASE row[r] = "none" /\ unit[r] = "tx"
    <3>1. KeyStatus[k] = "taken" /\ KeyHolder[k] = r
      BY <1>6, <2>6, <2>11, OwnCommit
    <3>2. KeyStatus' = [KeyStatus EXCEPT ![k] = "taken"] /\ KeyHolder' = [KeyHolder EXCEPT ![k] = r]
      BY <2>1, <2>9, <2>11, <3>1 DEF KeyStatus, KeyHolder
    <3> QED BY <1>2, <2>3, <2>8, <2>11, <3>1, <3>2 DEF Promise!Work, Promise!Set
  <2>12. CASE row[r] = "none" /\ unit[r] # "tx"
    <3>1. unit[r] = "claim"
      BY <1>6, <2>12, OwnCommit
    <3>2. UNCHANGED keyView
      BY <1>3, <2>8, <2>9, <2>12, <3>1
    <3> QED BY <3>2
  <2>13. CASE row[r] = "pending"
    <3>1. KeyStatus[k] = "free" /\ KeyStanding[k] = {}
      BY <1>6, <2>5, <2>13, OwnCommit
    <3>2. KeyStatus' = [KeyStatus EXCEPT ![k] = "taken"] /\ KeyHolder' = [KeyHolder EXCEPT ![k] = r]
      BY <2>7, <2>13
    <3> QED BY <1>2, <2>3, <2>4, <2>10, <3>1, <3>2 DEF Promise!Take, Promise!Set
  <2>14. CASE row[r] = "applied"
    <3>1. KeyStatus' = [KeyStatus EXCEPT ![k] = "applied"] /\ KeyHolder' = [KeyHolder EXCEPT ![k] = r]
      BY <2>7, <2>14
    <3>2. Standing(r)'
      <4>1. CASE unit[r] = "tx"
        BY <2>8, <4>1
      <4>2. CASE unit[r] = "record"
        <5>1. UNCHANGED <<db, undone>> /\ undone[r] = {} /\ seg[r] = N + 1
          BY <1>1, <2>8, <4>2, CommitChanges DEF Progress, Control, Exec
        <5>2. PICK i \in SegIx : IsTx(i)
          OBVIOUS
        <5>3. db[r][i] = 1
          BY <1>1, <5>1, <5>2, SegmentFacts DEF Progress
        <5> QED BY <5>1, <5>3 DEF Standing
      <4> QED BY <1>6, <2>14, <4>1, <4>2, OwnCommit
    <3>3. (KeyStatus[k] = "free" /\ KeyStanding[k] = {}) \/ (KeyStatus[k] = "taken" /\ KeyHolder[k] = r)
      BY <2>2, <2>5, <2>6
    <3> QED BY <1>2, <2>3, <3>1, <3>2, <3>3 DEF Promise!Apply, Promise!Set
  <2>15. CASE row[r] = "free"
    <3>1. KeyStatus[k] = "taken" /\ KeyHolder[k] = r /\ unit[r] = "compensate"
      BY <1>6, <2>6, <2>15, OwnCommit
    <3>2. KeyStatus' = [KeyStatus EXCEPT ![k] = "free"] /\ KeyHolder' = [KeyHolder EXCEPT ![k] = NoRun]
      BY <2>7, <2>15
    <3> QED BY <1>2, <2>4, <2>8, <3>1, <3>2 DEF Promise!GiveBack, Promise!Set
  <2> QED BY <1>1, <2>11, <2>12, <2>13, <2>14, <2>15 DEF TypeOK, DbTypes
<1> QED BY <1>4, <1>5, <1>6

\* Every other step leaves the key alone; the last one of a run is its answer.
LEMMA QuietKeepsPromise ==
  ASSUME Transactional, EveryCallCompensates, SagaInv, NEW r \in Runs, Step(r) \/ Crash(r),
         ~Commit(r), ~CommitLost(r)
  PROVE  [Promise!Next]_keyView
<1>1. TypeOK /\ TypeOK' /\ pc[r] \notin Ended
  BY NotEnded, TypeStep DEF SagaInv, LocalInv
<1>2. UNCHANGED <<KeyStatus, KeyHolder, KeyStanding>> /\ ledger' = ledger
  BY QuietDb DEF KeyStatus, KeyHolder, KeyStanding, Standing
<1>3. KeyAnswer' = [KeyAnswer EXCEPT ![r] = KeyAnswer'[r]] /\ KeyAnswer[r] = "none"
  BY <1>1, AnswerOfOne, AnswerAt
<1>4. ASSUME Keyed(r)
      PROVE  /\ KeyOf[r] \in Keys
             /\ pc'[r] = "done" => ledger[KeyOf[r]] = Entry("applied", r)
             /\ pc'[r] = "replayed" => /\ replayOf'[r] \in Runs /\ replayOf'[r] # r
                                       /\ ledger[KeyOf[r]] = Entry("applied", replayOf'[r])
  <2>1. Kept(r)'
    BY <1>4, KeptStep DEF KeptInv, Keyed
  <2> QED BY <1>1, <1>2, <1>4, <2>1, KeyType DEF Keyed, Kept, Recorded, TypeOK, ClaimTypes
<1>5. ASSUME KeyOf[r] \in Keys
      PROVE  /\ pc'[r] = "done" => KeyStatus[KeyOf[r]] = "applied" /\ KeyHolder[KeyOf[r]] = r
             /\ pc'[r] = "replayed" => KeyStatus[KeyOf[r]] = "applied" /\ KeyHolder[KeyOf[r]] # r
  BY <1>4, <1>5, RunsAssumption, EntryFields DEF Keyed, KeyStatus, KeyHolder
<1> SUFFICES (\E a \in {"own", "replayed", "error"} : Promise!Answer(r, a)) \/ UNCHANGED keyView
  BY DEF Promise!Next
<1>6. CASE pc'[r] \notin Ended
  <2>1. KeyAnswer' = KeyAnswer
    <3>1. KeyAnswer'[r] = KeyAnswer[r] /\ KeyAnswer = [q \in Runs |-> KeyAnswer[q]]
      BY <1>3, <1>6, AnswerAt DEF KeyAnswer
    <3> HIDE DEF KeyAnswer
    <3> QED BY <1>3, <3>1
  <2>2. UNCHANGED keyView
    BY <1>2, <2>1 DEF keyView
  <2> QED BY <2>2
<1>7. CASE pc'[r] = "done"
  <2>1. KeyAnswer'[r] = "own"
    BY <1>7, AnswerAt
  <2>2. Promise!Answer(r, "own")
    BY <1>2, <1>3, <1>5, <1>7, <2>1 DEF Promise!Answer
  <2> QED BY <2>2
<1>8. CASE pc'[r] = "replayed"
  <2>1. KeyAnswer'[r] = "replayed"
    BY <1>8, AnswerAt
  <2>2. Promise!Answer(r, "replayed")
    BY <1>2, <1>3, <1>5, <1>8, <2>1 DEF Promise!Answer
  <2> QED BY <2>2
<1>9. CASE pc'[r] \in {"failed", "crashed"}
  <2>1. KeyAnswer'[r] = "error"
    BY <1>9, AnswerAt
  <2>2. Promise!Answer(r, "error")
    BY <1>2, <1>3, <2>1 DEF Promise!Answer
  <2> QED BY <2>2
<1> QED BY <1>6, <1>7, <1>8, <1>9 DEF Ended

\* The concurrent runs of a keyed saga implement the promise of its key: every commit is a step of
\* the key, every end of a run an answer it allows, and every other step a stutter. The saga has a
\* transaction (of outbound steps alone the key has no work to speak of) and undoes what fails.
THEOREM RunsKeepThePromise ==
  ASSUME Transactional, EveryCallCompensates, \E i \in SegIx : IsTx(i)
  PROVE  Spec => KeepsKeyPromise
<1>1. Init => Promise!Init
  <2> SUFFICES ASSUME Init PROVE Promise!Init
    OBVIOUS
  <2>1. KeyStatus = [k \in Keys |-> "free"] /\ KeyHolder = [k \in Keys |-> NoRun]
    BY DEF Init, KeyStatus, KeyHolder, Entry
  <2>2. ASSUME NEW r \in Runs PROVE ~Standing(r)
    BY DEF Init, Standing
  <2>3. KeyStanding = [k \in Keys |-> {}]
    BY <2>2 DEF KeyStanding
  <2>4. KeyAnswer = [r \in Runs |-> "none"]
    BY DEF Init, KeyAnswer
  <2> QED BY <2>1, <2>3, <2>4 DEF Promise!Init
<1>2. ASSUME SagaInv, NEW r \in Runs, Step(r) \/ Crash(r) PROVE [Promise!Next]_keyView
  BY <1>2, CommitKeepsPromise, QuietKeepsPromise
<1>3. ASSUME UNCHANGED vars PROVE UNCHANGED keyView
  BY <1>3 DEF vars, keyView, KeyStatus, KeyHolder, KeyStanding, KeyAnswer, Standing
<1>4. SagaInv /\ [Next]_vars => [Promise!Next]_keyView
  BY <1>2, <1>3 DEF Next, AllEnded
<1>5. [Promise!Next]_keyView <=> [Promise!Next]_(Promise!keyVars)
  BY DEF keyView, Promise!keyVars
<1> QED BY <1>1, <1>4, <1>5, SagaInvariant, PTL DEF Spec, KeepsKeyPromise, Promise!KeySpec
=============================================================================
