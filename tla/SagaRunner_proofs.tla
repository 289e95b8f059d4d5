------------------------- MODULE SagaRunner_proofs -------------------------
(***************************************************************************)
(* Theorems about SagaRunner for any set of runs, any keys, any saga       *)
(* definition, any retry policy and any failures.                          *)
(*                                                                         *)
(* The invariant has a local part, LocalInv: what one run remembers fits   *)
(* where it is, and no step of one run changes what another remembers.     *)
(* Over a transactional ledger it has a shared part too, OwnershipInv: the *)
(* committed row of a key and the uncommitted ones agree with the claims   *)
(* the runs believe they have.                                             *)
(***************************************************************************)
EXTENDS SagaRunner, TLAPS

N == Len(Segments)

\* The labels of a run inside UnitOfWorkExecutor.execute.
Exec == {"unit", "claim", "acquire", "steps", "record", "commit", "undo", "redo", "judge",
         "backoff", "settle"}

\* Where a run is fits the segment it is at and the unit it executes.
Control(r) ==
  /\ pc[r] = "call" => seg[r] \in SegIx /\ ~IsTx(seg[r])
  /\ pc[r] \in Exec =>
       /\ unit[r] \in {"tx", "claim", "compensate", "record"}
       /\ unit[r] = "tx" => seg[r] \in SegIx /\ IsTx(seg[r])
       /\ unit[r] \in {"claim", "compensate"} => seg[r] \in SegIx /\ ~IsTx(seg[r])
       /\ unit[r] = "record" => seg[r] = N + 1 /\ ~IsTx(N)
  /\ pc[r] = "claim" => Keyed(r)
  /\ pc[r] = "record" => unit[r] = "record"
  /\ pc[r] = "backoff" => attempt[r] < Attempts
  /\ pc[r] = "redo" => calls[r] < MaxCalls

\* The claim flags, the replay, the locks and the uncommitted row fit where the run is.
Memory(r) ==
  /\ claimed[r] => Keyed(r)
  /\ saved[r] => claimed[r]
  /\ pc[r] = "claim" => ~claimed[r] /\ unit[r] \in {"tx", "claim"}
  /\ Keyed(r) /\ pc[r] \in {"acquire", "steps", "call"} => claimed[r]
  /\ Keyed(r) /\ pc[r] \in {"commit", "settle"} /\ replayOf[r] = NoRun => claimed[r]
  /\ pc[r] \in {"judge", "backoff"} => claimed[r] = saved[r]
  /\ Keyed(r) /\ unit[r] = "compensate" /\ pc[r] \in Exec => claimed[r]
  /\ unit[r] = "record" /\ pc[r] \in Exec => claimed[r]
  /\ unit[r] \in {"compensate", "record"} /\ pc[r] \in Exec \ {"unit"} => claimed[r] = saved[r]

Holding(r) ==
  held[r] # {} =>
    /\ pc[r] \in {"acquire", "steps", "commit", "settle", "undo", "redo"}
    /\ Keyed(r) => claimed[r]

ControlInv == \A r \in Runs : Control(r)
MemoryInv == \A r \in Runs : Memory(r) /\ Holding(r)

\* A saga has at least one segment.
LEMMA SegmentFacts == N \in Nat /\ N >= 1 /\ SegIx = 1 .. N /\ N \in SegIx /\ N = Len(Segments)
  BY SegmentsAssumption DEF N, SegIx

\* The limits of attempts and calls are positive.
LEMMA Bounds == Attempts \in Nat /\ Attempts >= 1 /\ MaxCalls \in Nat /\ MaxCalls >= 1
  BY BoundsAssumption

\* A run has a key of Keys or none.
LEMMA KeyType == ASSUME NEW r \in Runs PROVE KeyOf[r] \in Keys \cup {NoKey}
  BY RunsAssumption

\* A segment resolves locks of Locks.
LEMMA LocksType == ASSUME NEW r \in Runs, NEW i \in SegIx PROVE LocksOf[r][i] \in SUBSET Locks
  BY LocksAssumption

\* The labels and units are closed sets; the leaves below cite membership instead of expanding
\* them.
LEMMA LabelTypes ==
  /\ BodyLabels \subseteq Labels /\ Ended \subseteq Labels
  /\ "walk" \in Labels /\ "unit" \in Labels /\ "call" \in Labels /\ "commit" \in Labels
  /\ "undo" \in Labels /\ "redo" \in Labels /\ "judge" \in Labels /\ "backoff" \in Labels
  /\ "settle" \in Labels /\ "claim" \in Labels /\ "acquire" \in Labels /\ "steps" \in Labels
  /\ "record" \in Labels /\ "done" \in Labels /\ "replayed" \in Labels /\ "failed" \in Labels
  /\ "crashed" \in Labels
  BY DEF Labels, BodyLabels, Ended

\* The kinds of unit, likewise.
LEMMA UnitTypes ==
  /\ "tx" \in Units /\ "claim" \in Units /\ "compensate" \in Units /\ "record" \in Units
  /\ "none" \in Units
  BY DEF Units

\* Counting one more application keeps a tally a tally.
LEMMA Bumped ==
  ASSUME NEW t \in Tally, NEW i \in SegIx
  PROVE  [t EXCEPT ![i] = @ + 1] \in Tally
  BY DEF Tally

\* What a ledger statement writes is an entry.
LEMMA EntryType ==
  ASSUME NEW r \in Runs, NEW st \in {"free", "pending", "applied"}
  PROVE  Entry(st, r) \in Entries
  BY DEF Entry, Entries

\* An applied entry names the run that recorded it.
LEMMA AppliedBy ==
  ASSUME NEW e \in Entries, e.st = "applied"
  PROVE  e.by \in Runs
  BY DEF Entry, Entries

\* Adding the drained callbacks to the count of a segment.
LEMMA AddedHooks ==
  ASSUME NEW t \in Tally, NEW n \in Nat, NEW j \in Nat
  PROVE  [i \in SegIx |-> IF i = j THEN t[i] + n ELSE t[i]] \in Tally
  BY DEF Tally

\* A group of variables a step leaves alone keeps its types.
LEMMA SameTypes ==
  /\ PlaceTypes /\ UNCHANGED ctlVars => PlaceTypes'
  /\ ClaimTypes /\ UNCHANGED claimVars => ClaimTypes'
  /\ CtxTypes /\ UNCHANGED ctxVars => CtxTypes'
  /\ DbTypes /\ UNCHANGED dbVars => DbTypes'
  /\ LockTypes /\ UNCHANGED lastLocks /\ UNCHANGED held => LockTypes'
  /\ WorldTypes /\ UNCHANGED hooks /\ UNCHANGED worldVars => WorldTypes'
  BY DEF PlaceTypes, ClaimTypes, CtxTypes, DbTypes, LockTypes, WorldTypes, ctlVars, claimVars,
     ctxVars, dbVars, worldVars

\* Every step keeps every variable in its type; the bounds of retries and calls hold because of
\* where the run is (Control).
LEMMA TypeStep ==
  ASSUME TypeOK, ControlInv, NEW r \in Runs, Step(r) \/ Crash(r)
  PROVE  TypeOK'
<1> USE DEF TypeOK
<1>0. Control(r)
  BY DEF ControlInv
<1>1. CASE WalkTransaction(r)
  <2>1. PlaceTypes'
    BY <1>1, LabelTypes, UnitTypes DEF PlaceTypes, WalkTransaction, EnterUnit, Goto
  <2>2. LockTypes'
    BY <1>1, LocksType DEF LockTypes, WalkTransaction
  <2> QED BY <1>1, SameTypes, <2>1, <2>2 DEF WalkTransaction
<1>2. CASE ResolveFails(r)
  <2>1. PlaceTypes'
    BY <1>2, LabelTypes DEF PlaceTypes, ResolveFails, Goto
  <2> QED BY <1>2, SameTypes, <2>1 DEF ResolveFails
<1>3. CASE WalkOutbound(r)
  <2>1. PlaceTypes'
    BY <1>3, LabelTypes, UnitTypes DEF PlaceTypes, WalkOutbound, EnterUnit, Goto
  <2> QED BY <1>3, SameTypes, <2>1 DEF WalkOutbound
<1>4. CASE Finish(r)
  <2>1. PlaceTypes'
    BY <1>4, LabelTypes, UnitTypes DEF PlaceTypes, Finish, EnterUnit, Goto
  <2> QED BY <1>4, SameTypes, <2>1 DEF Finish
<1>5. CASE ReplyFails(r)
  <2>1. PlaceTypes'
    BY <1>5, LabelTypes DEF PlaceTypes, ReplyFails, Goto
  <2> QED BY <1>5, SameTypes, <2>1 DEF ReplyFails
<1>6. CASE OutboundOk(r)
  <2>1. PlaceTypes'
    BY <1>6, LabelTypes, SegmentFacts, <1>0 DEF PlaceTypes, OutboundOk, Goto, Control, Exec
  <2>2. CtxTypes'
    BY <1>6, Bumped, <1>0, SegmentFacts DEF CtxTypes, OutboundOk, Control, Exec
  <2>3. WorldTypes'
    BY <1>6, Bumped, <1>0, SegmentFacts DEF WorldTypes, OutboundOk, Control, Exec
  <2> QED BY <1>6, SameTypes, <2>1, <2>2, <2>3 DEF OutboundOk
<1>7. CASE OutboundFails(r)
  <2>1. PlaceTypes'
    BY <1>7, LabelTypes, UnitTypes DEF PlaceTypes, OutboundFails, EnterUnit, Goto
  <2> QED BY <1>7, SameTypes, <2>1 DEF OutboundFails
<1>8. CASE BeginUnit(r)
  <2>1. PlaceTypes'
    BY <1>8, LabelTypes, Bounds DEF PlaceTypes, BeginUnit, StartAttempt, BodyStart, Goto
  <2>2. ClaimTypes'
    BY <1>8, ClaimTypes DEF ClaimTypes, BeginUnit, StartAttempt
  <2>3. CtxTypes'
    BY <1>8 DEF CtxTypes, BeginUnit
  <2>4. WorldTypes'
    BY <1>8 DEF WorldTypes, BeginUnit, StartAttempt, worldVars
  <2> QED BY <1>8, SameTypes, <2>1, <2>2, <2>3, <2>4 DEF BeginUnit
<1>9. CASE CheckpointFails(r)
  <2>1. PlaceTypes'
    <3>1. CASE BeforeAnyEffect(r)
      BY <1>9, <3>1, LabelTypes DEF PlaceTypes, CheckpointFails, Goto
    <3>2. CASE ~BeforeAnyEffect(r)
      <4>1. /\ attempt' = [attempt EXCEPT ![r] = 1] /\ StartAttempt(r)
            /\ UNCHANGED <<seg, unit, err>>
        BY <1>9, <3>2 DEF CheckpointFails
      <4> QED BY <4>1, LabelTypes, Bounds DEF PlaceTypes, StartAttempt, BodyStart, Goto
    <3> QED BY <3>1, <3>2
  <2>2. ClaimTypes'
    BY <1>9 DEF ClaimTypes, CheckpointFails, StartAttempt
  <2>3. CtxTypes'
    BY <1>9 DEF CtxTypes, CheckpointFails
  <2>4. WorldTypes'
    BY <1>9 DEF WorldTypes, CheckpointFails, StartAttempt, worldVars
  <2> QED BY <1>9, SameTypes, <2>1, <2>2, <2>3, <2>4 DEF CheckpointFails
<1>10. CASE ClaimNew(r)
  <2>1. PlaceTypes'
    BY <1>10, LabelTypes DEF PlaceTypes, ClaimNew, Goto
  <2>2. ClaimTypes'
    BY <1>10 DEF ClaimTypes, ClaimNew
  <2>3. DbTypes'
    BY <1>10, EntryType DEF DbTypes, ClaimNew, WriteLedger, dbVars
  <2> QED BY <1>10, SameTypes, <2>1, <2>2, <2>3 DEF ClaimNew
<1>11. CASE ClaimReplay(r)
  <2>1. PlaceTypes'
    BY <1>11, LabelTypes DEF PlaceTypes, ClaimReplay, Goto
  <2>2. ClaimTypes'
    <3>1. ledger[KeyOf[r]] \in Entries
      BY <1>0, <1>11, KeyType DEF DbTypes, Control, ClaimReplay, Keyed
    <3>2. ledger[KeyOf[r]].by \in Runs
      BY <1>11, <3>1, AppliedBy DEF ClaimReplay
    <3> QED BY <1>11, <3>2 DEF ClaimTypes, ClaimReplay
  <2> QED BY <1>11, SameTypes, <2>1, <2>2 DEF ClaimReplay
<1>12. CASE ClaimInProgress(r)
  <2>1. PlaceTypes'
    BY <1>12, LabelTypes DEF PlaceTypes, ClaimInProgress, Goto
  <2>2. DbTypes'
    BY <1>12 DEF DbTypes, ClaimInProgress, EndTx
  <2>3. LockTypes'
    BY <1>12 DEF LockTypes, ClaimInProgress, EndTx, HeldAfterTx, NoLocks
  <2> QED BY <1>12, SameTypes, <2>1, <2>2, <2>3 DEF ClaimInProgress
<1>13. CASE AcquireNext(r)
  <2>1. LockTypes'
    BY <1>13, LocksAssumption DEF LockTypes, AcquireNext, IsNextLock
  <2> QED BY <1>13, SameTypes, <2>1 DEF AcquireNext
<1>14. CASE Acquired(r)
  <2>1. PlaceTypes'
    BY <1>14, LabelTypes DEF PlaceTypes, Acquired, Goto
  <2> QED BY <1>14, SameTypes, <2>1 DEF Acquired
<1>15. CASE LockTimeout(r)
  <2>1. PlaceTypes'
    BY <1>15, LabelTypes DEF PlaceTypes, LockTimeout, CallFails, AfterRollback, Goto
  <2>2. DbTypes'
    BY <1>15 DEF DbTypes, LockTimeout, CallFails, EndTx
  <2>3. LockTypes'
    BY <1>15 DEF LockTypes, LockTimeout, CallFails, EndTx, HeldAfterTx, NoLocks
  <2> QED BY <1>15, SameTypes, <2>1, <2>2, <2>3 DEF LockTimeout
<1>16. CASE RunSteps(r)
  <2>1. PlaceTypes'
    BY <1>16, LabelTypes DEF PlaceTypes, RunSteps, Goto
  <2>2. CtxTypes'
    BY <1>16, Bumped, <1>0, SegmentFacts DEF CtxTypes, RunSteps, Control, Exec
  <2>3. DbTypes'
    BY <1>16, EntryType DEF DbTypes, RunSteps, WriteLedger
  <2>4. WorldTypes'
    BY <1>16 DEF WorldTypes, RunSteps, worldVars
  <2> QED BY <1>16, SameTypes, <2>1, <2>2, <2>3, <2>4 DEF RunSteps
<1>17. CASE RunCompensation(r)
  <2>1. PlaceTypes'
    BY <1>17, LabelTypes DEF PlaceTypes, RunCompensation, Goto
  <2>2. DbTypes'
    BY <1>17, EntryType DEF DbTypes, RunCompensation, WriteLedger
  <2> QED BY <1>17, SameTypes, <2>1, <2>2 DEF RunCompensation
<1>18. CASE RecordReply(r)
  <2>1. PlaceTypes'
    BY <1>18, LabelTypes DEF PlaceTypes, RecordReply, Goto
  <2>2. DbTypes'
    BY <1>18, EntryType DEF DbTypes, RecordReply, WriteLedger
  <2> QED BY <1>18, SameTypes, <2>1, <2>2 DEF RecordReply
<1>19. CASE BodyFails(r)
  <2>1. PlaceTypes'
    BY <1>19, LabelTypes DEF PlaceTypes, BodyFails, CallFails, AfterRollback, Goto
  <2>2. CtxTypes'
    <3>1. CASE pc[r] = "steps" /\ unit[r] = "tx"
      <4>1. /\ ctx' = [ctx EXCEPT ![r][seg[r]] = @ + 1]
            /\ UNCHANGED <<ckpt, restorable>>
        BY <1>19, <3>1 DEF BodyFails
      <4>2. seg[r] \in SegIx
        BY <3>1, <1>0 DEF Control, Exec
      <4> QED BY <4>1, <4>2, Bumped DEF CtxTypes
    <3>2. CASE ~(pc[r] = "steps" /\ unit[r] = "tx")
      BY <1>19, <3>2 DEF CtxTypes, BodyFails
    <3> QED BY <3>1, <3>2
  <2>3. DbTypes'
    BY <1>19 DEF DbTypes, BodyFails, CallFails, EndTx
  <2>4. LockTypes'
    BY <1>19 DEF LockTypes, BodyFails, CallFails, EndTx, HeldAfterTx, NoLocks
  <2>5. WorldTypes'
    BY <1>19 DEF WorldTypes, BodyFails, worldVars
  <2> QED BY <1>19, SameTypes, <2>1, <2>2, <2>3, <2>4, <2>5 DEF BodyFails
<1>20. CASE Commit(r)
  <2>1. PlaceTypes'
    BY <1>20, LabelTypes DEF PlaceTypes, Commit, Goto
  <2>2. DbTypes'
    BY <1>20, Bumped, EntryType, <1>0, SegmentFacts DEF DbTypes, Commit, ApplyUnit, Committed,
       EndTx, Control, Exec
  <2>3. LockTypes'
    BY <1>20 DEF LockTypes, Commit, EndTx, HeldAfterTx, NoLocks
  <2> QED BY <1>20, SameTypes, <2>1, <2>2, <2>3 DEF Commit
<1>21. CASE CommitFails(r)
  <2>1. PlaceTypes'
    BY <1>21, LabelTypes DEF PlaceTypes, CommitFails, CallFails, AfterRollback, Goto
  <2>2. DbTypes'
    BY <1>21 DEF DbTypes, CommitFails, CallFails, EndTx
  <2>3. LockTypes'
    BY <1>21 DEF LockTypes, CommitFails, CallFails, EndTx, HeldAfterTx, NoLocks
  <2>4. WorldTypes'
    BY <1>21 DEF WorldTypes, CommitFails
  <2> QED BY <1>21, SameTypes, <2>1, <2>2, <2>3, <2>4 DEF CommitFails
<1>22. CASE CommitLost(r)
  <2>1. PlaceTypes'
    BY <1>22, LabelTypes DEF PlaceTypes, CommitLost, Goto
  <2>2. DbTypes'
    BY <1>22, Bumped, EntryType, <1>0, SegmentFacts DEF DbTypes, CommitLost, ApplyUnit, Committed,
       EndTx, Control, Exec
  <2>3. LockTypes'
    BY <1>22 DEF LockTypes, CommitLost, EndTx, HeldAfterTx, NoLocks
  <2> QED BY <1>22, SameTypes, <2>1, <2>2, <2>3 DEF CommitLost
<1>23. CASE Redo(r)
  <2>1. PlaceTypes'
    BY <1>23, LabelTypes, Bounds, <1>0 DEF PlaceTypes, Redo, BodyStart, Goto, Control, Exec
  <2>2. ClaimTypes'
    BY <1>23 DEF ClaimTypes, Redo, UndoCall
  <2>3. CtxTypes'
    BY <1>23 DEF CtxTypes, Redo, Restored
  <2>4. DbTypes'
    BY <1>23, EntryType DEF DbTypes, Redo, UndoCall
  <2>5. LockTypes'
    BY <1>23 DEF LockTypes, Redo, Released, NoLocks
  <2>6. WorldTypes'
    BY <1>23 DEF WorldTypes, Redo, UndoCall, worldVars
  <2> QED BY <1>23, SameTypes, <2>1, <2>2, <2>3, <2>4, <2>5, <2>6 DEF Redo
<1>24. CASE Undo(r)
  <2>1. PlaceTypes'
    BY <1>24, LabelTypes DEF PlaceTypes, Undo, Goto
  <2>2. ClaimTypes'
    BY <1>24 DEF ClaimTypes, Undo, UndoCall
  <2>3. DbTypes'
    BY <1>24, EntryType DEF DbTypes, Undo, UndoCall
  <2>4. LockTypes'
    BY <1>24 DEF LockTypes, Undo, Released, NoLocks
  <2>5. WorldTypes'
    BY <1>24 DEF WorldTypes, Undo, UndoCall, worldVars
  <2> QED BY <1>24, SameTypes, <2>1, <2>2, <2>3, <2>4, <2>5 DEF Undo
<1>25. CASE Judge(r)
  <2>1. PlaceTypes'
    BY <1>25, LabelTypes DEF PlaceTypes, Judge, Goto
  <2>2. CtxTypes'
    BY <1>25 DEF CtxTypes, Judge, Restored
  <2> QED BY <1>25, SameTypes, <2>1, <2>2 DEF Judge
<1>26. CASE Retry(r)
  <2>1. PlaceTypes'
    BY <1>26, LabelTypes, Bounds, <1>0 DEF PlaceTypes, Retry, StartAttempt, BodyStart, Goto,
       Control, Exec
  <2>2. ClaimTypes'
    BY <1>26 DEF ClaimTypes, Retry, StartAttempt
  <2>3. WorldTypes'
    BY <1>26 DEF WorldTypes, Retry, StartAttempt, worldVars
  <2> QED BY <1>26, SameTypes, <2>1, <2>2, <2>3 DEF Retry
<1>27. CASE Settle(r)
  <2>1. PlaceTypes'
    BY <1>27, LabelTypes, SegmentFacts, <1>0 DEF PlaceTypes, Settle, AfterUnit, Goto, Control, Exec
  <2>2. LockTypes'
    BY <1>27 DEF LockTypes, Settle, Released, NoLocks
  <2>3. WorldTypes'
    <3>1. fired[r] \in Tally /\ hooks[r] \in Nat /\ seg[r] \in Nat
      BY SegmentFacts DEF WorldTypes, PlaceTypes
    <3>2. [i \in SegIx |-> IF i = seg[r] THEN fired[r][i] + hooks[r] ELSE fired[r][i]] \in Tally
      BY <3>1, AddedHooks
    <3> QED BY <1>27, <3>2 DEF WorldTypes, Settle
  <2> QED BY <1>27, SameTypes, <2>1, <2>2, <2>3 DEF Settle
<1>28. CASE Crash(r)
  <2>1. PlaceTypes'
    BY <1>28, LabelTypes DEF PlaceTypes, Crash, Goto
  <2>2. DbTypes'
    BY <1>28 DEF DbTypes, Crash, EndTx
  <2>3. LockTypes'
    BY <1>28 DEF LockTypes, Crash, EndTx, HeldAfterTx, NoLocks
  <2> QED BY <1>28, SameTypes, <2>1, <2>2, <2>3 DEF Crash
<1> QED BY <1>1, <1>2, <1>3, <1>4, <1>5, <1>6, <1>7, <1>8, <1>9, <1>10, <1>11, <1>12, <1>13,
   <1>14, <1>15, <1>16, <1>17, <1>18, <1>19, <1>20, <1>21, <1>22, <1>23, <1>24, <1>25, <1>26, <1>27,
   <1>28 DEF Step

\* What a run remembers, wherever it is kept.
Of(q) == <<pc[q], seg[q], unit[q], attempt[q], calls[q], err[q], claimed[q], saved[q],
   replayOf[q], row[q], held[q]>>

\* Every step of a run is local: nothing another run remembers changes, only the shared ledger.
LEMMA OthersKeep ==
  ASSUME TypeOK, NEW r \in Runs, Step(r) \/ Crash(r), NEW q \in Runs, q # r
  PROVE  UNCHANGED Of(q)
<1> USE DEF TypeOK, PlaceTypes, ClaimTypes, DbTypes, LockTypes, Of
<1>1. CASE WalkTransaction(r)
  BY <1>1 DEF WalkTransaction, EnterUnit, Goto, ctlVars, claimVars, dbVars
<1>2. CASE ResolveFails(r)
  BY <1>2 DEF ResolveFails, Goto, ctlVars, claimVars, dbVars
<1>3. CASE WalkOutbound(r)
  BY <1>3 DEF WalkOutbound, EnterUnit, Goto, NeedsClaim, ctlVars, claimVars, dbVars
<1>4. CASE Finish(r)
  BY <1>4 DEF Finish, EnterUnit, Goto, ctlVars, claimVars, dbVars
<1>5. CASE ReplyFails(r)
  BY <1>5 DEF ReplyFails, Goto, ctlVars, claimVars, dbVars
<1>6. CASE OutboundOk(r)
  BY <1>6 DEF OutboundOk, Goto, ctlVars, claimVars, dbVars
<1>7. CASE OutboundFails(r)
  BY <1>7 DEF OutboundFails, EnterUnit, Goto, ctlVars, claimVars, dbVars
<1>8. CASE BeginUnit(r)
  BY <1>8 DEF BeginUnit, StartAttempt, Goto, ctlVars, claimVars, dbVars
<1>9. CASE CheckpointFails(r)
  BY <1>9 DEF CheckpointFails, StartAttempt, Goto, ctlVars, claimVars, dbVars
<1>10. CASE ClaimNew(r)
  BY <1>10 DEF ClaimNew, Goto, WriteLedger, ctlVars, claimVars, dbVars
<1>11. CASE ClaimReplay(r)
  BY <1>11 DEF ClaimReplay, Goto, ctlVars, claimVars, dbVars
<1>12. CASE ClaimInProgress(r)
  BY <1>12 DEF ClaimInProgress, Goto, EndTx, HeldAfterTx, ctlVars, claimVars, dbVars
<1>13. CASE AcquireNext(r)
  BY <1>13 DEF AcquireNext, ctlVars, claimVars, dbVars
<1>14. CASE Acquired(r)
  BY <1>14 DEF Acquired, Goto, ctlVars, claimVars, dbVars
<1>15. CASE LockTimeout(r)
  BY <1>15 DEF LockTimeout, CallFails, Goto, EndTx, HeldAfterTx, ctlVars, claimVars, dbVars
<1>16. CASE RunSteps(r)
  BY <1>16 DEF RunSteps, Goto, WriteLedger, ctlVars, claimVars, dbVars
<1>17. CASE RunCompensation(r)
  BY <1>17 DEF RunCompensation, Goto, WriteLedger, ctlVars, claimVars, dbVars
<1>18. CASE RecordReply(r)
  BY <1>18 DEF RecordReply, Goto, WriteLedger, ctlVars, claimVars, dbVars
<1>19. CASE BodyFails(r)
  BY <1>19 DEF BodyFails, CallFails, Goto, EndTx, HeldAfterTx, ctlVars, claimVars, dbVars
<1>20. CASE Commit(r)
  BY <1>20 DEF Commit, Goto, EndTx, HeldAfterTx, ctlVars, claimVars, dbVars
<1>21. CASE CommitFails(r)
  BY <1>21 DEF CommitFails, CallFails, Goto, EndTx, HeldAfterTx, ctlVars, claimVars, dbVars
<1>22. CASE CommitLost(r)
  BY <1>22 DEF CommitLost, Goto, EndTx, HeldAfterTx, ctlVars, claimVars, dbVars
<1>23. CASE Redo(r)
  BY <1>23 DEF Redo, Goto, UndoCall, Released, ctlVars, claimVars, dbVars
<1>24. CASE Undo(r)
  BY <1>24 DEF Undo, Goto, UndoCall, Released, ctlVars, claimVars, dbVars
<1>25. CASE Judge(r)
  BY <1>25 DEF Judge, Goto, ctlVars, claimVars, dbVars
<1>26. CASE Retry(r)
  BY <1>26 DEF Retry, StartAttempt, Goto, ctlVars, claimVars, dbVars
<1>27. CASE Settle(r)
  BY <1>27 DEF Settle, AfterUnit, Goto, Released, ctlVars, claimVars, dbVars
<1>28. CASE Crash(r)
  BY <1>28 DEF Crash, Goto, EndTx, HeldAfterTx, ctlVars, claimVars, dbVars
<1> QED BY <1>1, <1>2, <1>3, <1>4, <1>5, <1>6, <1>7, <1>8, <1>9, <1>10, <1>11, <1>12, <1>13,
   <1>14, <1>15, <1>16, <1>17, <1>18, <1>19, <1>20, <1>21, <1>22, <1>23, <1>24, <1>25, <1>26, <1>27,
   <1>28 DEF Step

\* A step leaves the run at a segment that fits its unit.
LEMMA ControlStep ==
  ASSUME TypeOK, ControlInv, MemoryInv, NEW r \in Runs, Step(r) \/ Crash(r)
  PROVE  Control(r)'
<1>0. Control(r) /\ Memory(r) /\ Holding(r)
  BY DEF ControlInv, MemoryInv
<1> USE <1>0 DEF TypeOK, PlaceTypes, ClaimTypes, DbTypes, LockTypes, Control, Memory, Holding,
   Exec, Keyed
<1>1. CASE WalkTransaction(r)
  BY <1>1, SegmentFacts DEF WalkTransaction, EnterUnit, Goto, ctlVars, claimVars, dbVars, IsTx
<1>2. CASE ResolveFails(r)
  BY <1>2, SegmentFacts DEF ResolveFails, Goto, ctlVars, claimVars, dbVars, IsTx
<1>3. CASE WalkOutbound(r)
  BY <1>3, SegmentFacts DEF WalkOutbound, EnterUnit, Goto, NeedsClaim, ctlVars, claimVars, dbVars,
     IsTx
<1>4. CASE Finish(r)
  BY <1>4, SegmentFacts DEF Finish, EnterUnit, Goto, ctlVars, claimVars, dbVars, IsTx
<1>5. CASE ReplyFails(r)
  BY <1>5, SegmentFacts DEF ReplyFails, Goto, ctlVars, claimVars, dbVars, IsTx
<1>6. CASE OutboundOk(r)
  BY <1>6, SegmentFacts DEF OutboundOk, Goto, ctlVars, claimVars, dbVars, IsTx
<1>7. CASE OutboundFails(r)
  BY <1>7, SegmentFacts DEF OutboundFails, EnterUnit, Goto, ctlVars, claimVars, dbVars, IsTx
<1>8. CASE BeginUnit(r)
  BY <1>8, SegmentFacts DEF BeginUnit, StartAttempt, BodyStart, Goto, ctlVars, claimVars, dbVars,
     IsTx
<1>9. CASE CheckpointFails(r)
  BY <1>9, SegmentFacts DEF CheckpointFails, StartAttempt, BodyStart, Goto, ctlVars, claimVars,
     dbVars, IsTx
<1>10. CASE ClaimNew(r)
  BY <1>10, SegmentFacts DEF ClaimNew, Goto, WriteLedger, ctlVars, claimVars, dbVars, IsTx
<1>11. CASE ClaimReplay(r)
  BY <1>11, SegmentFacts DEF ClaimReplay, Goto, ctlVars, claimVars, dbVars, IsTx
<1>12. CASE ClaimInProgress(r)
  BY <1>12, SegmentFacts DEF ClaimInProgress, Goto, EndTx, HeldAfterTx, ctlVars, claimVars,
     dbVars, IsTx
<1>13. CASE AcquireNext(r)
  BY <1>13, SegmentFacts DEF AcquireNext, ctlVars, claimVars, dbVars, IsTx
<1>14. CASE Acquired(r)
  BY <1>14, SegmentFacts DEF Acquired, Goto, ctlVars, claimVars, dbVars, IsTx
<1>15. CASE LockTimeout(r)
  BY <1>15, SegmentFacts DEF LockTimeout, CallFails, AfterRollback, Goto, EndTx, HeldAfterTx,
     ctlVars, claimVars, dbVars, IsTx
<1>16. CASE RunSteps(r)
  BY <1>16, SegmentFacts DEF RunSteps, Goto, WriteLedger, ctlVars, claimVars, dbVars, IsTx
<1>17. CASE RunCompensation(r)
  BY <1>17, SegmentFacts DEF RunCompensation, Goto, WriteLedger, ctlVars, claimVars, dbVars, IsTx
<1>18. CASE RecordReply(r)
  BY <1>18, SegmentFacts DEF RecordReply, Goto, WriteLedger, ctlVars, claimVars, dbVars, IsTx
<1>19. CASE BodyFails(r)
  BY <1>19, SegmentFacts DEF BodyFails, CallFails, AfterRollback, Goto, EndTx, HeldAfterTx,
     ctlVars, claimVars, dbVars, BodyLabels, IsTx
<1>20. CASE Commit(r)
  BY <1>20, SegmentFacts DEF Commit, Goto, EndTx, HeldAfterTx, ctlVars, claimVars, dbVars, IsTx
<1>21. CASE CommitFails(r)
  BY <1>21, SegmentFacts DEF CommitFails, CallFails, AfterRollback, Goto, EndTx, HeldAfterTx,
     ctlVars, claimVars, dbVars, IsTx
<1>22. CASE CommitLost(r)
  BY <1>22, SegmentFacts DEF CommitLost, Goto, EndTx, HeldAfterTx, ctlVars, claimVars, dbVars, IsTx
<1>23. CASE Redo(r)
  BY <1>23, SegmentFacts DEF Redo, BodyStart, Goto, UndoCall, Released, ctlVars, claimVars,
     dbVars, IsTx
<1>24. CASE Undo(r)
  BY <1>24, SegmentFacts DEF Undo, Goto, UndoCall, Released, ctlVars, claimVars, dbVars, IsTx
<1>25. CASE Judge(r)
  BY <1>25, SegmentFacts DEF Judge, Goto, ctlVars, claimVars, dbVars, Retries, IsTx
<1>26. CASE Retry(r)
  BY <1>26, SegmentFacts DEF Retry, StartAttempt, BodyStart, Goto, ctlVars, claimVars, dbVars, IsTx
<1>27. CASE Settle(r)
  BY <1>27, SegmentFacts DEF Settle, AfterUnit, Goto, Released, ctlVars, claimVars, dbVars, IsTx
<1>28. CASE Crash(r)
  BY <1>28, SegmentFacts DEF Crash, Goto, EndTx, HeldAfterTx, ctlVars, claimVars, dbVars, IsTx
<1> QED BY <1>1, <1>2, <1>3, <1>4, <1>5, <1>6, <1>7, <1>8, <1>9, <1>10, <1>11, <1>12, <1>13,
   <1>14, <1>15, <1>16, <1>17, <1>18, <1>19, <1>20, <1>21, <1>22, <1>23, <1>24, <1>25, <1>26, <1>27,
   <1>28 DEF Step

\* A step keeps the claim flags in line with where the run is.
LEMMA MemoryStep ==
  ASSUME TypeOK, ControlInv, MemoryInv, NEW r \in Runs, Step(r) \/ Crash(r)
  PROVE  Memory(r)'
<1>0. Control(r) /\ Memory(r) /\ Holding(r)
  BY DEF ControlInv, MemoryInv
<1> USE <1>0 DEF TypeOK, PlaceTypes, ClaimTypes, DbTypes, LockTypes, Control, Memory, Holding,
   Exec, Keyed
<1>1. CASE WalkTransaction(r)
  BY <1>1 DEF WalkTransaction, EnterUnit, Goto, ctlVars, claimVars, dbVars
<1>2. CASE ResolveFails(r)
  BY <1>2 DEF ResolveFails, Goto, ctlVars, claimVars, dbVars
<1>3. CASE WalkOutbound(r)
  BY <1>3 DEF WalkOutbound, EnterUnit, Goto, NeedsClaim, ctlVars, claimVars, dbVars
<1>4. CASE Finish(r)
  BY <1>4 DEF Finish, EnterUnit, Goto, ctlVars, claimVars, dbVars
<1>5. CASE ReplyFails(r)
  BY <1>5 DEF ReplyFails, Goto, ctlVars, claimVars, dbVars
<1>6. CASE OutboundOk(r)
  BY <1>6 DEF OutboundOk, Goto, ctlVars, claimVars, dbVars
<1>7. CASE OutboundFails(r)
  BY <1>7 DEF OutboundFails, EnterUnit, Goto, ctlVars, claimVars, dbVars
<1>8. CASE BeginUnit(r)
  BY <1>8 DEF BeginUnit, StartAttempt, BodyStart, Goto, ctlVars, claimVars, dbVars
<1>9. CASE CheckpointFails(r)
  BY <1>9 DEF CheckpointFails, StartAttempt, BodyStart, Goto, ctlVars, claimVars, dbVars
<1>10. CASE ClaimNew(r)
  BY <1>10 DEF ClaimNew, Goto, WriteLedger, ctlVars, claimVars, dbVars
<1>11. CASE ClaimReplay(r)
  <2>1. ledger[KeyOf[r]] \in Entries
    BY <1>11, KeyType DEF ClaimReplay
  <2>2. ledger[KeyOf[r]].by # NoRun
    BY <1>11, <2>1, AppliedBy, RunsAssumption DEF ClaimReplay
  <2> QED BY <1>11, <2>2 DEF ClaimReplay, Goto, ctlVars, claimVars, dbVars
<1>12. CASE ClaimInProgress(r)
  BY <1>12 DEF ClaimInProgress, Goto, EndTx, HeldAfterTx, ctlVars, claimVars, dbVars
<1>13. CASE AcquireNext(r)
  BY <1>13 DEF AcquireNext, ctlVars, claimVars, dbVars
<1>14. CASE Acquired(r)
  BY <1>14 DEF Acquired, Goto, ctlVars, claimVars, dbVars
<1>15. CASE LockTimeout(r)
  BY <1>15 DEF LockTimeout, CallFails, AfterRollback, Goto, EndTx, HeldAfterTx, ctlVars,
     claimVars, dbVars
<1>16. CASE RunSteps(r)
  BY <1>16 DEF RunSteps, Goto, WriteLedger, ctlVars, claimVars, dbVars
<1>17. CASE RunCompensation(r)
  BY <1>17 DEF RunCompensation, Goto, WriteLedger, ctlVars, claimVars, dbVars
<1>18. CASE RecordReply(r)
  BY <1>18 DEF RecordReply, Goto, WriteLedger, ctlVars, claimVars, dbVars
<1>19. CASE BodyFails(r)
  BY <1>19 DEF BodyFails, CallFails, AfterRollback, Goto, EndTx, HeldAfterTx, ctlVars, claimVars,
     dbVars, BodyLabels
<1>20. CASE Commit(r)
  BY <1>20 DEF Commit, Goto, EndTx, HeldAfterTx, ctlVars, claimVars, dbVars
<1>21. CASE CommitFails(r)
  BY <1>21 DEF CommitFails, CallFails, AfterRollback, Goto, EndTx, HeldAfterTx, ctlVars,
     claimVars, dbVars
<1>22. CASE CommitLost(r)
  BY <1>22 DEF CommitLost, Goto, EndTx, HeldAfterTx, ctlVars, claimVars, dbVars
<1>23. CASE Redo(r)
  BY <1>23 DEF Redo, BodyStart, Goto, UndoCall, Released, ctlVars, claimVars, dbVars
<1>24. CASE Undo(r)
  BY <1>24 DEF Undo, Goto, UndoCall, Released, ctlVars, claimVars, dbVars
<1>25. CASE Judge(r)
  BY <1>25 DEF Judge, Goto, ctlVars, claimVars, dbVars
<1>26. CASE Retry(r)
  BY <1>26 DEF Retry, StartAttempt, BodyStart, Goto, ctlVars, claimVars, dbVars
<1>27. CASE Settle(r)
  BY <1>27 DEF Settle, AfterUnit, Goto, Released, ctlVars, claimVars, dbVars
<1>28. CASE Crash(r)
  BY <1>28 DEF Crash, Goto, EndTx, HeldAfterTx, ctlVars, claimVars, dbVars
<1> QED BY <1>1, <1>2, <1>3, <1>4, <1>5, <1>6, <1>7, <1>8, <1>9, <1>10, <1>11, <1>12, <1>13,
   <1>14, <1>15, <1>16, <1>17, <1>18, <1>19, <1>20, <1>21, <1>22, <1>23, <1>24, <1>25, <1>26, <1>27,
   <1>28 DEF Step

\* A step leaves locks only with a run that is inside an attempt and has its claim.
LEMMA HoldingStep ==
  ASSUME TypeOK, ControlInv, MemoryInv, NEW r \in Runs, Step(r) \/ Crash(r)
  PROVE  Holding(r)'
<1>0. Control(r) /\ Memory(r) /\ Holding(r)
  BY DEF ControlInv, MemoryInv
<1> USE <1>0 DEF TypeOK, PlaceTypes, ClaimTypes, DbTypes, LockTypes, Control, Memory, Holding,
   Exec, Keyed
<1>1. CASE WalkTransaction(r)
  BY <1>1 DEF WalkTransaction, EnterUnit, Goto, ctlVars, claimVars, dbVars, NoLocks
<1>2. CASE ResolveFails(r)
  BY <1>2 DEF ResolveFails, Goto, ctlVars, claimVars, dbVars, NoLocks
<1>3. CASE WalkOutbound(r)
  BY <1>3 DEF WalkOutbound, EnterUnit, Goto, NeedsClaim, ctlVars, claimVars, dbVars, NoLocks
<1>4. CASE Finish(r)
  BY <1>4 DEF Finish, EnterUnit, Goto, ctlVars, claimVars, dbVars, NoLocks
<1>5. CASE ReplyFails(r)
  BY <1>5 DEF ReplyFails, Goto, ctlVars, claimVars, dbVars, NoLocks
<1>6. CASE OutboundOk(r)
  BY <1>6 DEF OutboundOk, Goto, ctlVars, claimVars, dbVars, NoLocks
<1>7. CASE OutboundFails(r)
  BY <1>7 DEF OutboundFails, EnterUnit, Goto, ctlVars, claimVars, dbVars, NoLocks
<1>8. CASE BeginUnit(r)
  BY <1>8 DEF BeginUnit, StartAttempt, BodyStart, Goto, ctlVars, claimVars, dbVars, NoLocks
<1>9. CASE CheckpointFails(r)
  BY <1>9 DEF CheckpointFails, StartAttempt, BodyStart, Goto, ctlVars, claimVars, dbVars, NoLocks
<1>10. CASE ClaimNew(r)
  BY <1>10 DEF ClaimNew, Goto, WriteLedger, ctlVars, claimVars, dbVars, NoLocks
<1>11. CASE ClaimReplay(r)
  BY <1>11 DEF ClaimReplay, Goto, ctlVars, claimVars, dbVars, NoLocks
<1>12. CASE ClaimInProgress(r)
  BY <1>12 DEF ClaimInProgress, Goto, EndTx, HeldAfterTx, ctlVars, claimVars, dbVars, NoLocks
<1>13. CASE AcquireNext(r)
  BY <1>13 DEF AcquireNext, ctlVars, claimVars, dbVars, NoLocks
<1>14. CASE Acquired(r)
  BY <1>14 DEF Acquired, Goto, ctlVars, claimVars, dbVars, NoLocks
<1>15. CASE LockTimeout(r)
  BY <1>15 DEF LockTimeout, CallFails, AfterRollback, Goto, EndTx, HeldAfterTx, ctlVars,
     claimVars, dbVars, NoLocks
<1>16. CASE RunSteps(r)
  BY <1>16 DEF RunSteps, Goto, WriteLedger, ctlVars, claimVars, dbVars, NoLocks
<1>17. CASE RunCompensation(r)
  BY <1>17 DEF RunCompensation, Goto, WriteLedger, ctlVars, claimVars, dbVars, NoLocks
<1>18. CASE RecordReply(r)
  BY <1>18 DEF RecordReply, Goto, WriteLedger, ctlVars, claimVars, dbVars, NoLocks
<1>19. CASE BodyFails(r)
  BY <1>19 DEF BodyFails, CallFails, AfterRollback, Goto, EndTx, HeldAfterTx, ctlVars, claimVars,
     dbVars, BodyLabels, NoLocks
<1>20. CASE Commit(r)
  BY <1>20 DEF Commit, Goto, EndTx, HeldAfterTx, ctlVars, claimVars, dbVars, NoLocks
<1>21. CASE CommitFails(r)
  BY <1>21 DEF CommitFails, CallFails, AfterRollback, Goto, EndTx, HeldAfterTx, ctlVars,
     claimVars, dbVars, NoLocks
<1>22. CASE CommitLost(r)
  BY <1>22 DEF CommitLost, Goto, EndTx, HeldAfterTx, ctlVars, claimVars, dbVars, NoLocks
<1>23. CASE Redo(r)
  BY <1>23 DEF Redo, BodyStart, Goto, UndoCall, Released, ctlVars, claimVars, dbVars, NoLocks
<1>24. CASE Undo(r)
  BY <1>24 DEF Undo, Goto, UndoCall, Released, ctlVars, claimVars, dbVars, NoLocks
<1>25. CASE Judge(r)
  BY <1>25 DEF Judge, Goto, ctlVars, claimVars, dbVars, NoLocks
<1>26. CASE Retry(r)
  BY <1>26 DEF Retry, StartAttempt, BodyStart, Goto, ctlVars, claimVars, dbVars, NoLocks
<1>27. CASE Settle(r)
  BY <1>27 DEF Settle, AfterUnit, Goto, Released, ctlVars, claimVars, dbVars, NoLocks
<1>28. CASE Crash(r)
  BY <1>28, FaultsAssumption DEF Crash, Goto, EndTx, HeldAfterTx, ctlVars, claimVars, dbVars,
     NoLocks
<1> QED BY <1>1, <1>2, <1>3, <1>4, <1>5, <1>6, <1>7, <1>8, <1>9, <1>10, <1>11, <1>12, <1>13,
   <1>14, <1>15, <1>16, <1>17, <1>18, <1>19, <1>20, <1>21, <1>22, <1>23, <1>24, <1>25, <1>26, <1>27,
   <1>28 DEF Step

\* The uncommitted row fits the claim and the statement that wrote it.
Row(r) ==
  /\ row[r] # "none" => claimed[r] /\ pc[r] \in {"acquire", "steps", "commit"}
  /\ row[r] # "none" /\ pc[r] # "commit" => ~saved[r]
  /\ Tentative(r) => row[r] \in {"pending", "applied"}
  /\ row[r] = "applied" => pc[r] = "commit" /\ (unit[r] = "record" \/ (unit[r] = "tx" /\ IsLast(r)))
  /\ row[r] = "free" => pc[r] = "commit" /\ unit[r] = "compensate"

Owner(r) == Durable(r) \/ Tentative(r)

\* What the committed row of the key says of its owner.
Owns(r) ==
  /\ Durable(r) => Ours(r)
  /\ Tentative(r) => ledger[KeyOf[r]].st = "free"

OneWriter == \A r, q \in Runs : SameKey(r, q) => row[r] = "none" \/ row[q] = "none"

LocalInv == TypeOK /\ ControlInv /\ MemoryInv
OwnershipInv == OneWriter /\ \A r \in Runs : Row(r) /\ Owns(r)

\* A step keeps the uncommitted row in line with the claim that wrote it.
LEMMA RowStep ==
  ASSUME Transactional, TypeOK, ControlInv, MemoryInv, NEW r \in Runs, Row(r), Step(r) \/ Crash(r)
  PROVE  Row(r)'
<1>0. Control(r) /\ Memory(r)
  BY DEF ControlInv, MemoryInv
<1> USE <1>0 DEF TypeOK, PlaceTypes, ClaimTypes, DbTypes, LockTypes, Control, Memory, Exec, Keyed,
   Row, Tentative, IsLast
<1>1. CASE WalkTransaction(r)
  BY <1>1 DEF WalkTransaction, EnterUnit, Goto, ctlVars, claimVars, dbVars
<1>2. CASE ResolveFails(r)
  BY <1>2 DEF ResolveFails, Goto, ctlVars, claimVars, dbVars
<1>3. CASE WalkOutbound(r)
  BY <1>3 DEF WalkOutbound, EnterUnit, Goto, NeedsClaim, ctlVars, claimVars, dbVars
<1>4. CASE Finish(r)
  BY <1>4 DEF Finish, EnterUnit, Goto, ctlVars, claimVars, dbVars
<1>5. CASE ReplyFails(r)
  BY <1>5 DEF ReplyFails, Goto, ctlVars, claimVars, dbVars
<1>6. CASE OutboundOk(r)
  BY <1>6 DEF OutboundOk, Goto, ctlVars, claimVars, dbVars
<1>7. CASE OutboundFails(r)
  BY <1>7 DEF OutboundFails, EnterUnit, Goto, ctlVars, claimVars, dbVars
<1>8. CASE BeginUnit(r)
  BY <1>8 DEF BeginUnit, StartAttempt, BodyStart, Goto, ctlVars, claimVars, dbVars
<1>9. CASE CheckpointFails(r)
  BY <1>9 DEF CheckpointFails, StartAttempt, BodyStart, Goto, ctlVars, claimVars, dbVars
<1>10. CASE ClaimNew(r)
  BY <1>10 DEF ClaimNew, Goto, WriteLedger, ctlVars, claimVars, dbVars
<1>11. CASE ClaimReplay(r)
  BY <1>11 DEF ClaimReplay, Goto, ctlVars, claimVars, dbVars
<1>12. CASE ClaimInProgress(r)
  BY <1>12 DEF ClaimInProgress, Goto, EndTx, ctlVars, claimVars, dbVars
<1>13. CASE AcquireNext(r)
  BY <1>13 DEF AcquireNext, ctlVars, claimVars, dbVars
<1>14. CASE Acquired(r)
  BY <1>14 DEF Acquired, Goto, ctlVars, claimVars, dbVars
<1>15. CASE LockTimeout(r)
  BY <1>15 DEF LockTimeout, CallFails, AfterRollback, Goto, EndTx, ctlVars, claimVars, dbVars
<1>16. CASE RunSteps(r)
  BY <1>16 DEF RunSteps, Goto, WriteLedger, ctlVars, claimVars, dbVars
<1>17. CASE RunCompensation(r)
  BY <1>17 DEF RunCompensation, Goto, WriteLedger, ctlVars, claimVars, dbVars
<1>18. CASE RecordReply(r)
  BY <1>18 DEF RecordReply, Goto, WriteLedger, ctlVars, claimVars, dbVars
<1>19. CASE BodyFails(r)
  BY <1>19 DEF BodyFails, CallFails, AfterRollback, Goto, EndTx, ctlVars, claimVars, dbVars,
     BodyLabels
<1>20. CASE Commit(r)
  BY <1>20 DEF Commit, Goto, EndTx, ctlVars, claimVars, dbVars
<1>21. CASE CommitFails(r)
  BY <1>21 DEF CommitFails, CallFails, AfterRollback, Goto, EndTx, ctlVars, claimVars, dbVars
<1>22. CASE CommitLost(r)
  BY <1>22 DEF CommitLost, Goto, EndTx, ctlVars, claimVars, dbVars
<1>23. CASE Redo(r)
  BY <1>23 DEF Redo, BodyStart, Goto, UndoCall, ctlVars, claimVars, dbVars
<1>24. CASE Undo(r)
  BY <1>24 DEF Undo, Goto, UndoCall, ctlVars, claimVars, dbVars
<1>25. CASE Judge(r)
  BY <1>25 DEF Judge, Goto, ctlVars, claimVars, dbVars
<1>26. CASE Retry(r)
  BY <1>26 DEF Retry, StartAttempt, BodyStart, Goto, ctlVars, claimVars, dbVars
<1>27. CASE Settle(r)
  BY <1>27 DEF Settle, AfterUnit, Goto, ctlVars, claimVars, dbVars
<1>28. CASE Crash(r)
  BY <1>28 DEF Crash, Goto, EndTx, ctlVars, claimVars, dbVars
<1> QED BY <1>1, <1>2, <1>3, <1>4, <1>5, <1>6, <1>7, <1>8, <1>9, <1>10, <1>11, <1>12, <1>13,
   <1>14, <1>15, <1>16, <1>17, <1>18, <1>19, <1>20, <1>21, <1>22, <1>23, <1>24, <1>25, <1>26, <1>27,
   <1>28 DEF Step

\* The two fields of a pending entry.
LEMMA PendingEntry ==
  ASSUME NEW r \in Runs
  PROVE  Entry("pending", r).st = "pending" /\ Entry("pending", r).by = r
  BY DEF Entry

\* At most one run per key owns it, durably or tentatively.
LEMMA OneOwner ==
  ASSUME TypeOK, MemoryInv, OwnershipInv, NEW r \in Runs, NEW q \in Runs, SameKey(r, q)
  PROVE  ~(Owner(r) /\ Owner(q))
<1>1. Keyed(r) /\ Keyed(q) /\ KeyOf[q] = KeyOf[r] /\ r # q
  BY DEF SameKey, Keyed
<1>2. CASE Durable(r) /\ Durable(q)
  BY <1>1, <1>2, PendingEntry DEF OwnershipInv, Owns, Ours
<1>3. CASE Durable(r) /\ Tentative(q)
  BY <1>1, <1>3, PendingEntry DEF OwnershipInv, Owns, Ours
<1>4. CASE Tentative(r) /\ Durable(q)
  BY <1>1, <1>4, PendingEntry DEF OwnershipInv, Owns, Ours
<1>5. CASE Tentative(r) /\ Tentative(q)
  BY <1>1, <1>5 DEF OwnershipInv, OneWriter, Row
<1> QED BY <1>2, <1>3, <1>4, <1>5 DEF Owner

\* A run with an uncommitted row owns the key.
LEMMA WriterOwns ==
  ASSUME TypeOK, MemoryInv, NEW r \in Runs, Row(r), row[r] # "none"
  PROVE  Owner(r) /\ Keyed(r)
<1>1. claimed[r] /\ pc[r] \in {"acquire", "steps", "commit"} /\ Keyed(r)
  BY DEF Row, MemoryInv, Memory
<1>2. CASE saved[r]
  BY <1>1, <1>2 DEF Row, Owner, Durable
<1>3. CASE ~saved[r]
  BY <1>1, <1>3 DEF Owner, Tentative
<1> QED BY <1>2, <1>3

\* A keyed run that does the saga's work owns the key.
LEMMA ActorOwns ==
  ASSUME TypeOK, MemoryInv, NEW r \in Runs, Keyed(r), Acting(r)
  PROVE  Owner(r)
<1>1. claimed[r]
  BY DEF MemoryInv, Memory, Acting
<1>2. CASE pc[r] = "call"
  BY <1>1, <1>2 DEF Owner, Durable
<1>3. CASE pc[r] = "steps" /\ saved[r]
  BY <1>1, <1>3 DEF Owner, Durable, BodyLabels
<1>4. CASE pc[r] = "steps" /\ ~saved[r]
  BY <1>1, <1>4 DEF Owner, Tentative
<1> QED BY <1>2, <1>3, <1>4 DEF Acting, ClaimTypes, TypeOK

\* A step of the owner itself keeps what the ledger says of it.
LEMMA OwnsStep ==
  ASSUME Transactional, TypeOK, ControlInv, MemoryInv, NEW r \in Runs, Row(r), Owns(r),
         Step(r) \/ Crash(r)
  PROVE  Owns(r)'
<1>0. Control(r) /\ Memory(r)
  BY DEF ControlInv, MemoryInv
<1> USE <1>0 DEF TypeOK, PlaceTypes, ClaimTypes, DbTypes, Control, Memory, Exec, Keyed, Row, Owns,
   Durable, Tentative, Ours, IsLast, BodyLabels
<1>1. CASE WalkTransaction(r)
  BY <1>1, SegmentFacts DEF WalkTransaction, EnterUnit, Goto, ctlVars, claimVars, dbVars, IsTx
<1>2. CASE ResolveFails(r)
  BY <1>2 DEF ResolveFails, Goto, ctlVars, claimVars, dbVars
<1>3. CASE WalkOutbound(r)
  BY <1>3, SegmentFacts DEF WalkOutbound, EnterUnit, Goto, NeedsClaim, ctlVars, claimVars, dbVars,
     IsTx
<1>4. CASE Finish(r)
  BY <1>4, SegmentFacts DEF Finish, EnterUnit, Goto, ctlVars, claimVars, dbVars, IsTx
<1>5. CASE ReplyFails(r)
  BY <1>5 DEF ReplyFails, Goto, ctlVars, claimVars, dbVars
<1>6. CASE OutboundOk(r)
  BY <1>6, SegmentFacts DEF OutboundOk, Goto, ctlVars, claimVars, dbVars, IsTx
<1>7. CASE OutboundFails(r)
  BY <1>7 DEF OutboundFails, EnterUnit, Goto, ctlVars, claimVars, dbVars
<1>8. CASE BeginUnit(r)
  BY <1>8 DEF BeginUnit, StartAttempt, BodyStart, Goto, ctlVars, claimVars, dbVars
<1>9. CASE CheckpointFails(r)
  BY <1>9 DEF CheckpointFails, StartAttempt, BodyStart, Goto, ctlVars, claimVars, dbVars
<1>10. CASE ClaimNew(r)
  BY <1>10 DEF ClaimNew, Goto, WriteLedger, ctlVars, claimVars, dbVars
<1>11. CASE ClaimReplay(r)
  BY <1>11 DEF ClaimReplay, Goto, ctlVars, claimVars, dbVars
<1>12. CASE ClaimInProgress(r)
  BY <1>12 DEF ClaimInProgress, Goto, EndTx, ctlVars, claimVars, dbVars
<1>13. CASE AcquireNext(r)
  BY <1>13 DEF AcquireNext, ctlVars, claimVars, dbVars
<1>14. CASE Acquired(r)
  BY <1>14 DEF Acquired, Goto, ctlVars, claimVars, dbVars
<1>15. CASE LockTimeout(r)
  BY <1>15 DEF LockTimeout, CallFails, AfterRollback, Goto, EndTx, ctlVars, claimVars, dbVars
<1>16. CASE RunSteps(r)
  BY <1>16 DEF RunSteps, Goto, WriteLedger, ctlVars, claimVars, dbVars
<1>17. CASE RunCompensation(r)
  BY <1>17 DEF RunCompensation, Goto, WriteLedger, ctlVars, claimVars, dbVars
<1>18. CASE RecordReply(r)
  BY <1>18 DEF RecordReply, Goto, WriteLedger, ctlVars, claimVars, dbVars
<1>19. CASE BodyFails(r)
  BY <1>19 DEF BodyFails, CallFails, AfterRollback, Goto, EndTx, ctlVars, claimVars, dbVars
<1>20. CASE Commit(r)
  BY <1>20, KeyType DEF Commit, Goto, EndTx, ctlVars, claimVars, dbVars, Committed, Entry
<1>21. CASE CommitFails(r)
  BY <1>21 DEF CommitFails, CallFails, AfterRollback, Goto, EndTx, ctlVars, claimVars, dbVars
<1>22. CASE CommitLost(r)
  BY <1>22, KeyType DEF CommitLost, Goto, EndTx, ctlVars, claimVars, dbVars, Committed, Entry
<1>23. CASE Redo(r)
  BY <1>23 DEF Redo, BodyStart, Goto, UndoCall, ctlVars, claimVars, dbVars
<1>24. CASE Undo(r)
  BY <1>24 DEF Undo, Goto, UndoCall, ctlVars, claimVars, dbVars
<1>25. CASE Judge(r)
  BY <1>25 DEF Judge, Goto, ctlVars, claimVars, dbVars, Retries
<1>26. CASE Retry(r)
  BY <1>26 DEF Retry, StartAttempt, BodyStart, Goto, ctlVars, claimVars, dbVars
<1>27. CASE Settle(r)
  BY <1>27, SegmentFacts DEF Settle, AfterUnit, Goto, ctlVars, claimVars, dbVars, IsTx
<1>28. CASE Crash(r)
  BY <1>28 DEF Crash, Goto, EndTx, ctlVars, claimVars, dbVars
<1> QED BY <1>1, <1>2, <1>3, <1>4, <1>5, <1>6, <1>7, <1>8, <1>9, <1>10, <1>11, <1>12, <1>13,
   <1>14, <1>15, <1>16, <1>17, <1>18, <1>19, <1>20, <1>21, <1>22, <1>23, <1>24, <1>25, <1>26, <1>27,
   <1>28 DEF Step

\* Only a commit changes the ledger, and only the row of the key whose writer commits.
LEMMA LedgerStep ==
  ASSUME Transactional, TypeOK, NEW r \in Runs, Row(r), Step(r) \/ Crash(r),
         NEW k \in Keys, ledger'[k] # ledger[k]
  PROVE  row[r] # "none" /\ k = KeyOf[r]
<1> USE DEF TypeOK, DbTypes
<1>1. CASE WalkTransaction(r)
  BY <1>1 DEF WalkTransaction, dbVars
<1>2. CASE ResolveFails(r)
  BY <1>2 DEF ResolveFails, dbVars
<1>3. CASE WalkOutbound(r)
  BY <1>3 DEF WalkOutbound, dbVars
<1>4. CASE Finish(r)
  BY <1>4 DEF Finish, dbVars
<1>5. CASE ReplyFails(r)
  BY <1>5 DEF ReplyFails, dbVars
<1>6. CASE OutboundOk(r)
  BY <1>6 DEF OutboundOk, dbVars
<1>7. CASE OutboundFails(r)
  BY <1>7 DEF OutboundFails, dbVars
<1>8. CASE BeginUnit(r)
  BY <1>8 DEF BeginUnit, dbVars
<1>9. CASE CheckpointFails(r)
  BY <1>9 DEF CheckpointFails, dbVars
<1>10. CASE ClaimNew(r)
  BY <1>10 DEF ClaimNew, WriteLedger, dbVars
<1>11. CASE ClaimReplay(r)
  BY <1>11 DEF ClaimReplay, dbVars
<1>12. CASE ClaimInProgress(r)
  BY <1>12 DEF ClaimInProgress, dbVars
<1>13. CASE AcquireNext(r)
  BY <1>13 DEF AcquireNext, dbVars
<1>14. CASE Acquired(r)
  BY <1>14 DEF Acquired, dbVars
<1>15. CASE LockTimeout(r)
  BY <1>15 DEF LockTimeout, dbVars
<1>16. CASE RunSteps(r)
  BY <1>16 DEF RunSteps, WriteLedger, dbVars
<1>17. CASE RunCompensation(r)
  BY <1>17 DEF RunCompensation, WriteLedger, dbVars
<1>18. CASE RecordReply(r)
  BY <1>18 DEF RecordReply, WriteLedger, dbVars
<1>19. CASE BodyFails(r)
  BY <1>19 DEF BodyFails, dbVars
<1>20. CASE Commit(r)
  BY <1>20 DEF Commit, dbVars, Committed
<1>21. CASE CommitFails(r)
  BY <1>21 DEF CommitFails, dbVars
<1>22. CASE CommitLost(r)
  BY <1>22 DEF CommitLost, dbVars, Committed
<1>23. CASE Redo(r)
  BY <1>23 DEF Redo, UndoCall, dbVars
<1>24. CASE Undo(r)
  BY <1>24 DEF Undo, UndoCall, dbVars
<1>25. CASE Judge(r)
  BY <1>25 DEF Judge, dbVars
<1>26. CASE Retry(r)
  BY <1>26 DEF Retry, dbVars
<1>27. CASE Settle(r)
  BY <1>27 DEF Settle, dbVars
<1>28. CASE Crash(r)
  BY <1>28 DEF Crash, dbVars
<1> QED BY <1>1, <1>2, <1>3, <1>4, <1>5, <1>6, <1>7, <1>8, <1>9, <1>10, <1>11, <1>12, <1>13,
   <1>14, <1>15, <1>16, <1>17, <1>18, <1>19, <1>20, <1>21, <1>22, <1>23, <1>24, <1>25, <1>26, <1>27,
   <1>28 DEF Step

\* A run that writes a row had the key, or found no other open transaction on it.
LEMMA WriterStep ==
  ASSUME Transactional, TypeOK, ControlInv, MemoryInv, NEW r \in Runs, Step(r) \/ Crash(r),
         row[r] = "none", row'[r] # "none"
  PROVE  Keyed(r) /\ (Owner(r) \/ ~RowBusy(r))
<1> USE DEF TypeOK, DbTypes
<1>1. CASE WalkTransaction(r)
  BY <1>1 DEF WalkTransaction, dbVars
<1>2. CASE ResolveFails(r)
  BY <1>2 DEF ResolveFails, dbVars
<1>3. CASE WalkOutbound(r)
  BY <1>3 DEF WalkOutbound, dbVars
<1>4. CASE Finish(r)
  BY <1>4 DEF Finish, dbVars
<1>5. CASE ReplyFails(r)
  BY <1>5 DEF ReplyFails, dbVars
<1>6. CASE OutboundOk(r)
  BY <1>6 DEF OutboundOk, dbVars
<1>7. CASE OutboundFails(r)
  BY <1>7 DEF OutboundFails, dbVars
<1>8. CASE BeginUnit(r)
  BY <1>8 DEF BeginUnit, dbVars
<1>9. CASE CheckpointFails(r)
  BY <1>9 DEF CheckpointFails, dbVars
<1>10. CASE ClaimNew(r)
  BY <1>10 DEF ClaimNew, WriteLedger, dbVars, ControlInv, Control, Keyed
<1>11. CASE ClaimReplay(r)
  BY <1>11 DEF ClaimReplay, dbVars
<1>12. CASE ClaimInProgress(r)
  BY <1>12 DEF ClaimInProgress, EndTx, dbVars
<1>13. CASE AcquireNext(r)
  BY <1>13 DEF AcquireNext, dbVars
<1>14. CASE Acquired(r)
  BY <1>14 DEF Acquired, dbVars
<1>15. CASE LockTimeout(r)
  BY <1>15 DEF LockTimeout, EndTx, dbVars, CallFails
<1>16. CASE RunSteps(r)
  BY <1>16 DEF RunSteps, WriteLedger, dbVars, ControlInv, Control, MemoryInv, Memory, Owner,
     Durable, Tentative, Exec, BodyLabels, PlaceTypes, ClaimTypes
<1>17. CASE RunCompensation(r)
  BY <1>17 DEF RunCompensation, WriteLedger, dbVars, ControlInv, Control, MemoryInv, Memory,
     Owner, Durable, Tentative, Exec, BodyLabels, PlaceTypes, ClaimTypes
<1>18. CASE RecordReply(r)
  BY <1>18 DEF RecordReply, WriteLedger, dbVars, ControlInv, Control, MemoryInv, Memory, Owner,
     Durable, Tentative, Exec, BodyLabels, PlaceTypes, ClaimTypes
<1>19. CASE BodyFails(r)
  BY <1>19 DEF BodyFails, EndTx, dbVars, CallFails
<1>20. CASE Commit(r)
  BY <1>20 DEF Commit, EndTx, dbVars
<1>21. CASE CommitFails(r)
  BY <1>21 DEF CommitFails, EndTx, dbVars, CallFails
<1>22. CASE CommitLost(r)
  BY <1>22 DEF CommitLost, EndTx, dbVars
<1>23. CASE Redo(r)
  BY <1>23 DEF Redo, UndoCall, dbVars
<1>24. CASE Undo(r)
  BY <1>24 DEF Undo, UndoCall, dbVars
<1>25. CASE Judge(r)
  BY <1>25 DEF Judge, dbVars
<1>26. CASE Retry(r)
  BY <1>26 DEF Retry, dbVars
<1>27. CASE Settle(r)
  BY <1>27 DEF Settle, dbVars
<1>28. CASE Crash(r)
  BY <1>28 DEF Crash, EndTx, dbVars
<1> QED BY <1>1, <1>2, <1>3, <1>4, <1>5, <1>6, <1>7, <1>8, <1>9, <1>10, <1>11, <1>12, <1>13,
   <1>14, <1>15, <1>16, <1>17, <1>18, <1>19, <1>20, <1>21, <1>22, <1>23, <1>24, <1>25, <1>26, <1>27,
   <1>28 DEF Step

\* Every step keeps the ownership of every key.
LEMMA OwnershipStep ==
  ASSUME Transactional, LocalInv, OwnershipInv, NEW r \in Runs, Step(r) \/ Crash(r)
  PROVE  OwnershipInv'
<1> USE DEF LocalInv
<1>1. Row(r) /\ Owns(r) /\ Row(r)' /\ Owns(r)'
  BY RowStep, OwnsStep DEF OwnershipInv
<1>2. ASSUME NEW q \in Runs, q # r
      PROVE  Row(q)' /\ Owns(q)'
  <2>1. Row(q) /\ Owns(q) /\ UNCHANGED Of(q)
    BY <1>2, OthersKeep DEF OwnershipInv
  <2>2. /\ Row(q)'
        /\ Durable(q)' = Durable(q)
        /\ Tentative(q)' = Tentative(q)
    BY <2>1 DEF Of, Row, Durable, Tentative, IsLast
  <2>3. CASE Owner(q)
    <3>1. KeyOf[q] \in Keys /\ Keyed(q)
      BY <2>3, KeyType DEF Owner, Durable, Tentative, MemoryInv, Memory, Keyed
    <3>2. ledger'[KeyOf[q]] = ledger[KeyOf[q]]
      <4> SUFFICES ASSUME ledger'[KeyOf[q]] # ledger[KeyOf[q]]
                   PROVE  FALSE
        OBVIOUS
      <4>1. row[r] # "none" /\ KeyOf[q] = KeyOf[r]
        BY <1>1, <3>1, LedgerStep
      <4>2. Owner(r) /\ SameKey(r, q)
        BY <1>1, <1>2, <4>1, WriterOwns DEF SameKey
      <4> QED BY <2>3, <4>2, OneOwner
    <3> QED BY <2>1, <2>2, <3>2 DEF Owns, Ours
  <2>4. CASE ~Owner(q)
    BY <2>2, <2>4 DEF Owner, Owns
  <2> QED BY <2>2, <2>3, <2>4
<1>3. ASSUME NEW q \in Runs, SameKey(r, q)
      PROVE  row'[r] = "none" \/ row'[q] = "none"
  <2>1. q # r /\ row'[q] = row[q] /\ SameKey(q, r) /\ Row(q)
    BY <1>3, OthersKeep DEF SameKey, Of, Keyed, OwnershipInv
  <2>2. CASE row[r] # "none" \/ row[q] = "none"
    BY <1>3, <2>1, <2>2 DEF OwnershipInv, OneWriter
  <2>3. CASE row[r] = "none" /\ row[q] # "none"
    <3>1. Owner(q)
      BY <2>1, <2>3, WriterOwns
    <3>2. RowBusy(r)
      BY <1>3, <2>1, <2>3 DEF RowBusy, SameKey
    <3>3. row'[r] # "none" => Owner(r)
      BY <2>3, <3>2, WriterStep
    <3> QED BY <1>3, <3>1, <3>3, OneOwner
  <2> QED BY <2>2, <2>3
<1>4. OneWriter'
  <2> SUFFICES ASSUME NEW p \in Runs, NEW q \in Runs, SameKey(p, q)
               PROVE  row'[p] = "none" \/ row'[q] = "none"
    BY DEF OneWriter, SameKey, Keyed
  <2>1. CASE p = r
    BY <1>3, <2>1
  <2>2. CASE q = r
    <3>1. SameKey(r, p)
      BY <2>2 DEF SameKey, Keyed
    <3> QED BY <1>3, <2>2, <3>1
  <2>3. CASE p # r /\ q # r
    <3>1. row'[p] = row[p] /\ row'[q] = row[q]
      BY <2>3, OthersKeep DEF Of
    <3> QED BY <3>1 DEF OwnershipInv, OneWriter
  <2> QED BY <2>1, <2>2, <2>3
<1> QED BY <1>1, <1>2, <1>4 DEF OwnershipInv

\* The initial states.
LEMMA InitInv == Init => LocalInv /\ OwnershipInv
<1> SUFFICES ASSUME Init PROVE LocalInv /\ OwnershipInv
  OBVIOUS
<1> USE DEF Init
<1>1. [i \in SegIx |-> 0] \in Tally /\ Entry("free", NoRun) \in Entries
  BY DEF Tally, Entries
<1>2. TypeOK
  <2>1. PlaceTypes
    BY LabelTypes, UnitTypes, SegmentFacts, Bounds DEF PlaceTypes
  <2>2. ClaimTypes /\ LockTypes
    BY DEF ClaimTypes, LockTypes, NoLocks
  <2>3. CtxTypes /\ WorldTypes
    BY <1>1 DEF CtxTypes, WorldTypes
  <2>4. DbTypes
    BY <1>1 DEF DbTypes
  <2> QED BY <2>1, <2>2, <2>3, <2>4 DEF TypeOK
<1>3. ControlInv /\ MemoryInv
  BY DEF ControlInv, Control, MemoryInv, Memory, Holding, Exec, NoLocks
<1>4. OwnershipInv
  BY DEF OwnershipInv, OneWriter, Row, Owns, Durable, Tentative
<1> QED BY <1>2, <1>3, <1>4 DEF LocalInv

\* Every step keeps the local invariant of every run.
LEMMA LocalStep ==
  ASSUME LocalInv, NEW r \in Runs, Step(r) \/ Crash(r)
  PROVE  LocalInv'
<1> USE DEF LocalInv
<1>1. TypeOK'
  BY TypeStep
<1>2. ASSUME NEW q \in Runs PROVE Control(q)' /\ Memory(q)' /\ Holding(q)'
  <2>1. CASE q = r
    BY <2>1, ControlStep, MemoryStep, HoldingStep
  <2>2. CASE q # r
    <3>1. Control(q) /\ Memory(q) /\ Holding(q) /\ UNCHANGED Of(q)
      BY <2>2, OthersKeep DEF ControlInv, MemoryInv
    <3> QED BY <3>1 DEF Of, Control, Memory, Holding, Keyed
  <2> QED BY <2>1, <2>2
<1> QED BY <1>1, <1>2 DEF ControlInv, MemoryInv

\* Stuttering keeps the local invariant.
LEMMA StutterLocal == LocalInv /\ UNCHANGED vars => LocalInv'
  BY DEF vars, LocalInv, TypeOK, PlaceTypes, ClaimTypes, CtxTypes, DbTypes, LockTypes, WorldTypes,
         ControlInv, Control, MemoryInv, Memory, Holding, Keyed

\* Stuttering keeps the ownership invariant.
LEMMA StutterOwnership == OwnershipInv /\ UNCHANGED vars => OwnershipInv'
  BY DEF vars, OwnershipInv, OneWriter, Row, Owns, Ours, Durable, Tentative, IsLast

\* The local invariant holds whatever the ledger promises.
LEMMA LocalInvariant == Spec => []LocalInv
<1>1. Init => LocalInv
  BY InitInv
<1>2. LocalInv /\ [Next]_vars => LocalInv'
  BY LocalStep, StutterLocal DEF Next, AllEnded
<1> QED BY <1>1, <1>2, PTL DEF Spec

\* Types: a unit makes at most retry.attempts attempts and a port at most MaxCalls calls in each,
\* whatever the definition, the policy and the failures (UnitOfWorkExecutor.execute, runAttempt).
THEOREM TypeCorrect == Spec => []TypeOK
<1>1. LocalInv => TypeOK
  BY DEF LocalInv
<1> QED BY <1>1, LocalInvariant, PTL

\* Claim first (SagaRunner.runUnitOfWork, runOutbound): only the run that has its key claimed takes
\* or keeps a lock, runs a step or calls out, after any rollback, re-invocation or retry.
THEOREM ClaimFirst == Spec => []ClaimComesFirst
<1>1. LocalInv => ClaimComesFirst
  BY DEF LocalInv, MemoryInv, Memory, Holding, ClaimComesFirst
<1> QED BY <1>1, LocalInvariant, PTL

\* No lock outlives its attempt (UnitOfWorkExecutor.release in the finally block): a run that is
\* between units, backing off or over holds none.
THEOREM LocksReleased == Spec => []LocksFollowAttempts
<1>1. LocalInv => LocksFollowAttempts
  BY DEF LocalInv, MemoryInv, Holding, LocksFollowAttempts, Ended
<1> QED BY <1>1, LocalInvariant, PTL

\* Over a transactional ledger two runs of one key never do the saga's work together, for any
\* number
\* of duplicates and of keys, any segments, any retry policy and any failures, crashes included.
THEOREM DuplicatesExcluded ==
  ASSUME Transactional
  PROVE  Spec => []ActsAlone
<1>1. Init => LocalInv /\ OwnershipInv
  BY InitInv
<1>2. LocalInv /\ OwnershipInv /\ [Next]_vars => (LocalInv /\ OwnershipInv)'
  BY LocalStep, OwnershipStep, StutterLocal, StutterOwnership DEF Next, AllEnded
<1>3. LocalInv /\ OwnershipInv => ActsAlone
  <2> SUFFICES ASSUME LocalInv, OwnershipInv, NEW r \in Runs, NEW q \in Runs, SameKey(r, q),
                      Acting(r), Acting(q)
               PROVE  FALSE
    BY DEF ActsAlone
  <2>1. Keyed(r) /\ Keyed(q)
    BY DEF SameKey, Keyed
  <2>2. Owner(r) /\ Owner(q)
    BY <2>1, ActorOwns DEF LocalInv
  <2> QED BY <2>2, OneOwner DEF LocalInv
<1> QED BY <1>1, <1>2, <1>3, PTL DEF Spec

====
