---------------------------- MODULE MCSagaRunner ----------------------------
(***************************************************************************)
(* Instances of SagaRunner for TLC: the definitions the runs use, built as *)
(* the DSL builds them, their keys and their locks; and the definitions of *)
(* SagaDefinition against what they promise, over small inputs.            *)
(***************************************************************************)
EXTENDS SagaRunner, TLC

CONSTANTS r1, r2, r3, k1, Undefined

D == INSTANCE SagaDefinition

-----------------------------------------------------------------------------
(* Calls of the builder. *)

Transaction == [call |-> "transaction"]
Outbound(compensates, inherits) ==
  [call |-> "outbound", compensates |-> compensates, inherits |-> inherits]
Lock(l) == [call |-> "lock", lock |-> l]
Retrying(p) == [call |-> "retry", policy |-> p]

Tx == Transaction
Out == Outbound(TRUE, TRUE)
BareOut == Outbound(FALSE, FALSE)

TxUnit == [kind |-> "transaction", compensates |-> FALSE, inherits |-> FALSE]
OutStep == [kind |-> "outbound", compensates |-> TRUE, inherits |-> TRUE]
BareOutStep == [kind |-> "outbound", compensates |-> FALSE, inherits |-> FALSE]

\* What a run sees of the segments of a definition.
ShapeOf(segment) ==
  IF segment.kind = "transaction" THEN TxUnit
  ELSE [OutStep EXCEPT !.compensates = segment.step.compensates, !.inherits = segment.step.inherits]
Shape(dsl) ==
  D!FoldLeft(LAMBDA shapes, segment : Append(shapes, ShapeOf(segment)), <<>>,
             D!SegmentsOf(D!Built(dsl).steps))

\* The saga of the README: commit, call out, commit.
TxOutTx == <<TxUnit, OutStep, TxUnit>>
TxOut == <<TxUnit, OutStep>>
\* It opens with a call that nothing undoes, which needs a unit of its own for the claim.
OutboundFirst == <<BareOutStep, TxUnit, OutStep, TxUnit>>
TwoOutbounds == <<TxUnit, OutStep, TxUnit, OutStep>>

\* They are what the DSL makes of these calls; consecutive transactions are one unit.
ASSUME SegmentsAsBuilt ==
  /\ TxOutTx = Shape(<<Tx, Tx, Out, Tx>>)
  /\ TxOut = Shape(<<Tx, Out>>)
  /\ OutboundFirst = Shape(<<BareOut, Tx, Out, Tx, Tx>>)
  /\ TwoOutbounds = Shape(<<Tx, Out, Tx, Out>>)

OneKey == [r \in Runs |-> k1]
\* r3 is another request, which only shares locks with the duplicates r1 and r2.
TwoKeyed == [r \in Runs |-> IF r = r3 THEN NoKey ELSE k1]
NoLocksOf == [r \in Runs |-> [i \in SegIx |-> {}]]
\* r1 and r2 overlap on both locks, r3 on one.
OverlappingLocks == [r \in Runs |-> [i \in SegIx |-> IF r = r3 THEN {2} ELSE {1, 2}]]
\* The compensation of one run against the transactions of the other.
SharedLock == [r \in Runs |-> [i \in SegIx |-> {1}]]

Duplicates == Permutations(Runs)

-----------------------------------------------------------------------------
(* The builder. *)

LockOn(n, m, t) == [namespace |-> n, mode |-> m, timeoutMs |-> t, optional |-> FALSE]
L1 == LockOn(1, "shared", Undefined)
L2 == LockOn(2, "exclusive", 50)
Policy == [on |-> <<"deadlock">>, attempts |-> 3, backoffMs |-> 20, maxBackoffMs |-> Undefined,
           jitter |-> "full"]
Calls == {Lock(L1), Lock(L2), Tx, Out, Retrying(Policy)}
CallLists == UNION {[1 .. n -> Calls] : n \in 0 .. 5}

IsLock(c) == c.call = "lock"
IsStep(c) == c.call \in {"transaction", "outbound"}

\* "A `lock` binds forward to the next transaction step": a definition is built exactly when the step
\* after every lock is a transaction, one policy at most was given and there is a step; and then
\* the locks of its steps are the declared ones, in the order they were declared.
NextStep(dsl, i) ==
  {j \in i + 1 .. Len(dsl) : IsStep(dsl[j]) /\ \A k \in i + 1 .. j - 1 : ~IsStep(dsl[k])}
Sound(dsl) ==
  /\ \A i \in DOMAIN dsl :
       IsLock(dsl[i]) =>
         NextStep(dsl, i) # {} /\ \A j \in NextStep(dsl, i) : dsl[j].call = "transaction"
  /\ \E i \in DOMAIN dsl : IsStep(dsl[i])
  /\ Cardinality({i \in DOMAIN dsl : dsl[i].call = "retry"}) <= 1
LocksOfSegments(segments) ==
  D!FlattenSeq([i \in DOMAIN segments |->
    IF segments[i].kind = "transaction" THEN segments[i].locks ELSE <<>>])
DeclaredLocks(dsl) == [i \in DOMAIN SelectSeq(dsl, IsLock) |-> SelectSeq(dsl, IsLock)[i].lock]

ASSUME LocksBindForward ==
  \A dsl \in CallLists :
    LET b == D!Built(dsl)
    IN /\ b.threw <=> ~Sound(dsl)
       /\ ~b.threw => LocksOfSegments(D!SegmentsOf(b.steps)) = DeclaredLocks(dsl)

\* "Consecutive transaction steps share ONE database transaction": no two transaction segments meet,
\* and every step is in one segment.
ASSUME SegmentsAreUnits ==
  \A dsl \in CallLists :
    LET b == D!Built(dsl)
        segments == D!SegmentsOf(b.steps)
        sizes == [i \in DOMAIN segments |->
                    IF segments[i].kind = "transaction" THEN segments[i].steps ELSE 1]
    IN ~b.threw =>
         /\ \A i \in 1 .. Len(segments) - 1 :
              ~(segments[i].kind = "transaction" /\ segments[i + 1].kind = "transaction")
         /\ D!FoldLeft(+, 0, sizes) = Len(b.steps)

-----------------------------------------------------------------------------
(* Locks and runs. *)

KeyNames == {"a", "b"}
BeforeByName(p, q) ==
  \/ p.namespace < q.namespace
  \/ p.namespace = q.namespace /\ p.key = "a" /\ q.key = "b"
Identities == [namespace : {1, 2}, key : KeyNames]
ByName == {pair \in Identities \X Identities : BeforeByName(pair[1], pair[2])}
Requests ==
  [namespace : {1, 2}, key : KeyNames, mode : {"shared", "exclusive"}, timeoutMs : {Undefined, 5, 9}]

\* "All locks of a unit are taken once, in one canonical order": every identity asked for is there
\* once, the list is sorted, and no request of the identity is stricter than its merger.
NoStricter(q, r) ==
  /\ q.mode = "exclusive" => r.mode = "exclusive"
  /\ q.timeoutMs # Undefined => r.timeoutMs # Undefined /\ r.timeoutMs <= q.timeoutMs
SameLock(q, r) == q.namespace = r.namespace /\ q.key = r.key

ASSUME LocksAreCanonical ==
  \A n \in 0 .. 2 : \A requests \in [1 .. n -> Requests] :
    LET locks == D!CanonicalLocks(requests, ByName)
    IN /\ \A i \in DOMAIN requests :
            \E j \in DOMAIN locks : SameLock(requests[i], locks[j]) /\ NoStricter(requests[i], locks[j])
       /\ \A i, j \in DOMAIN locks : i < j => BeforeByName(locks[i], locks[j])

\* An empty list of keys takes no lock when the lock is optional, a cap counts merged locks.
ASSUME KeysAreCounted ==
  /\ D!LocksRefused(<<L1>>, <<<<>>>>, 2, ByName)
  /\ ~D!LocksRefused(<<[L1 EXCEPT !.optional = TRUE]>>, <<<<>>>>, 2, ByName)
  /\ D!LocksRefused(<<L1>>, <<<<"">>>>, 2, ByName)
  /\ ~D!LocksRefused(<<L1, L1>>, <<<<"a", "b">>, <<"b">>>>, 2, ByName)
  /\ D!LocksRefused(<<L1, L2>>, <<<<"a", "b">>, <<"b">>>>, 2, ByName)

\* A run inside a unit of work of another adds no lock to its locks and no retry to its retries, so
\* that neither a lock order nor an attempt has another one inside it. The unit may hold none of the
\* locks its saga declares: another unit holds them, or they were optional.
Definitions == {D!Built(dsl) : dsl \in {c \in CallLists : ~D!Built(c).threw /\ Len(c) <= 3}}
FullRunner == [hasLocks |-> TRUE, classifies |-> TRUE, transactionalLedger |-> TRUE]
Runs2 == {[FullRunner EXCEPT !.hasLocks = h, !.classifies = c, !.transactionalLedger = t] :
            h, c, t \in BOOLEAN}

ASSUME NestedRunsAreBare ==
  \A outer, inner \in Definitions :
    \A resolved \in {<<>>, LocksOfSegments(D!SegmentsOf(outer.steps))} :
      D!Runnable(inner, TRUE, FullRunner, D!ScopeOf(outer, resolved)) =>
        resolved = <<>> /\ outer.retry = {} /\ ~D!DeclaresLocks(inner.steps) /\ inner.retry = {}

\* A retried claim is always undone by a rollback, a lock always has a port.
ASSUME RetriesNeedTheirPorts ==
  \A def \in Definitions, runner \in Runs2 :
    D!Runnable(def, TRUE, runner, D!NoScope) =>
      /\ def.retry # {} => runner.transactionalLedger /\ runner.classifies
      /\ D!DeclaresLocks(def.steps) => runner.hasLocks

\* Documented: "without maxBackoffMs the delay stops at 32 x backoffMs (also as the jitter bound)";
\* with the jitter 'full' it is anything up to the delay, with 'equal' at least half of it.
ASSUME BackoffsStop ==
  \A base \in {0, 1, 3}, max \in {Undefined, 3, 50}, jitter \in {"full", "equal", "none"}, n \in 1 .. 8 :
    LET p == [Policy EXCEPT !.backoffMs = base, !.maxBackoffMs = max, !.jitter = jitter]
        doubled == base * <<1, 2, 4, 8, 16, 32, 64, 128>>[n]
        stop == IF max = Undefined THEN 32 * base ELSE max
        whole == IF doubled > stop THEN stop ELSE doubled
    IN D!DelaysFor(p, n) = (CASE jitter = "full" -> 0 .. whole
                              [] jitter = "equal" -> whole \div 2 .. whole
                              [] OTHER -> {whole})

-----------------------------------------------------------------------------
(* Checkpoints. *)

Values == [kind : D!ValueKinds, frozen : BOOLEAN, hides : {FALSE}, holds : SUBSET {1, 2, 3}]
Leafless(v) == v.kind \in D!Opaque => v.holds = {}
Graphs == {<<root, x, y>> : root \in {v \in Values : v.kind = "plain" /\ v.holds \subseteq {2, 3}},
                            x, y \in {v \in Values : Leafless(v)}}

\* What a path of at most three values from ctx leads to.
Held(g, S) == UNION {g[n].holds : n \in S}
AnyDepth(g) == LET one == Held(g, {1}) two == Held(g, one) IN one \cup two \cup Held(g, two)

\* A copy holds no value that loses its class or cannot be cloned, and where nothing is kept nothing
\* can change.
ASSUME CheckpointsRestore ==
  \A g \in Graphs :
    /\ D!CheckpointOf(g, 1) = "copy" => \A n \in AnyDepth(g) : g[n].kind \notin {"instance", "function"}
    /\ D!CheckpointOf(g, 1) = "nothing" =>
         /\ g[1].frozen
         /\ \A n \in AnyDepth(g) : g[n].kind = "primitive" \/ (g[n].frozen /\ g[n].kind \in {"plain", "array"})
=============================================================================
