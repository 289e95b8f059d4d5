--------------------------- MODULE SagaDefinition ---------------------------
(***************************************************************************)
(* What a saga is before it runs: the builder of the DSL                   *)
(* (src/saga/saga.ts), the checks of a definition (saga-definition.ts,     *)
(* saga-runner.ts), the units of work its steps are grouped into and the   *)
(* locks they resolve to (segments.ts, lock-port.ts), the backoff of its   *)
(* retries and the checkpoint of its ctx (retry-policy.ts).                *)
(***************************************************************************)
EXTENDS Integers, Sequences, FiniteSets, SequencesExt

CONSTANT Undefined   \* what was left out, no number

-----------------------------------------------------------------------------
(* The checks of policies and locks. *)

MaxRetryAttempts == 20
MaxBackoffMs == 2147483647
MaxTimeoutMs == 2147483647

ErrorKinds == {"lock-timeout", "deadlock", "serialization", "stale-state"}
DatabaseKinds == {"lock-timeout", "deadlock", "serialization"}

IsIntegerIn(v, least, most) == v \in Int /\ least <= v /\ v <= most

\* validateRetryPolicy. `on` is the list as declared; an unset maxBackoffMs is Undefined.
ValidRetry(p) ==
  /\ p.on # <<>> /\ ToSet(p.on) \subseteq ErrorKinds
  /\ \A i, j \in DOMAIN p.on : p.on[i] = p.on[j] => i = j
  /\ IsIntegerIn(p.attempts, 1, MaxRetryAttempts)
  /\ IsIntegerIn(p.backoffMs, 0, MaxBackoffMs)
  /\ p.maxBackoffMs # Undefined => IsIntegerIn(p.maxBackoffMs, p.backoffMs, MaxBackoffMs)

\* validateLockDeclaration: the namespace and the key function are named, the mode is given.
ValidLock(l) ==
  /\ l.namespace # Undefined
  /\ l.mode \in {"shared", "exclusive"}
  /\ l.timeoutMs # Undefined => IsIntegerIn(l.timeoutMs, 1, MaxTimeoutMs)

-----------------------------------------------------------------------------
(* The builder: a call leads from one builder to the next, or throws. *)

NewBuilder == [steps |-> <<>>, pending |-> <<>>, retry |-> {}, threw |-> FALSE]
Thrown(b) == [b EXCEPT !.threw = TRUE]

\* A lock binds forward: it waits for the next transaction step.
AddLock(b, l) == IF ValidLock(l) THEN [b EXCEPT !.pending = Append(@, l)] ELSE Thrown(b)

AddTransaction(b) ==
  [b EXCEPT !.steps = Append(@, [kind |-> "transaction", locks |-> b.pending]), !.pending = <<>>]

\* assertNoPendingLocks: an outbound step runs in no unit of work.
AddOutbound(b, compensates, inherits) ==
  IF b.pending # <<>> THEN Thrown(b)
  ELSE [b EXCEPT !.steps = Append(@, [kind |-> "outbound", compensates |-> compensates,
                                      inherits |-> inherits])]

AddRetry(b, p) ==
  IF b.retry = {} /\ ValidRetry(p) THEN [b EXCEPT !.retry = {p}] ELSE Thrown(b)

Call(b, c) ==
  IF b.threw THEN b
  ELSE CASE c.call = "lock" -> AddLock(b, c.lock)
         [] c.call = "transaction" -> AddTransaction(b)
         [] c.call = "outbound" -> AddOutbound(b, c.compensates, c.inherits)
         [] c.call = "retry" -> AddRetry(b, c.policy)

\* reply(): the definition, unless locks are pending or nothing was declared.
Built(calls) ==
  LET b == FoldLeft(Call, NewBuilder, calls)
  IN IF b.pending # <<>> \/ b.steps = <<>> THEN Thrown(b) ELSE b

-----------------------------------------------------------------------------
(* Segments and their locks. *)

\* A transaction step joins the unit of work before it.
AddToSegments(segments, step) ==
  IF step.kind = "outbound"
  THEN Append(segments, [kind |-> "outbound", step |-> step])
  ELSE IF segments # <<>> /\ Last(segments).kind = "transaction"
       THEN Append(Front(segments),
                   [Last(segments) EXCEPT !.steps = @ + 1, !.locks = @ \o step.locks])
       ELSE Append(segments, [kind |-> "transaction", steps |-> 1, locks |-> step.locks])

SegmentsOf(steps) == FoldLeft(AddToSegments, <<>>, steps)

DeclaresLocks(steps) == \E i \in DOMAIN steps : steps[i].kind = "transaction" /\ steps[i].locks # <<>>

\* keysOf: what the key function of a lock returned for this ctx, as a list.
KeysRefused(l, keys) == (keys = <<>> /\ ~l.optional) \/ \E i \in DOMAIN keys : keys[i] = ""

MinTimeout(s, t) ==
  IF s = Undefined THEN t ELSE IF t = Undefined THEN s ELSE IF s <= t THEN s ELSE t

\* mergeLockRequests over all requests for one identity: exclusive wins, the smallest timeout wins.
Merged(requests) ==
  LET all == ToSet(requests)
  IN [namespace |-> requests[1].namespace, key |-> requests[1].key,
      mode |-> IF \E q \in all : q.mode = "exclusive" THEN "exclusive" ELSE "shared",
      timeoutMs |-> FoldLeft(MinTimeout, Undefined, [i \in DOMAIN requests |-> requests[i].timeoutMs])]

\* canonicalLocks: one request per identity, by namespace and then by key: `order` holds the pairs of
\* identities of which the first comes before the second.
CanonicalLocks(requests, order) ==
  LET identity(q) == [namespace |-> q.namespace, key |-> q.key]
      ids == SetToSortSeq({identity(q) : q \in ToSet(requests)}, LAMBDA p, q : <<p, q>> \in order)
  IN [i \in DOMAIN ids |-> Merged(SelectSeq(requests, LAMBDA q : identity(q) = ids[i]))]

\* resolveLocks: the requests of a unit for the keys its ctx gives, or a refusal.
RequestsOf(locks, keysOf) ==
  FlattenSeq([i \in DOMAIN locks |->
    [j \in DOMAIN keysOf[i] |->
       [namespace |-> locks[i].namespace, key |-> keysOf[i][j], mode |-> locks[i].mode,
        timeoutMs |-> locks[i].timeoutMs]]])

LocksRefused(locks, keysOf, max, order) ==
  \/ \E i \in DOMAIN locks : KeysRefused(locks[i], keysOf[i])
  \/ Len(CanonicalLocks(RequestsOf(locks, keysOf), order)) > max

-----------------------------------------------------------------------------
(* assertRunnable: what a runner refuses before any transaction starts. *)

\* `runner` says which ports it has; `scope` is the unit of work the run is started in, if any: a
\* unit of `def`, with the locks resolved for it.
NoScope == [inside |-> FALSE, holdsLocks |-> FALSE, retries |-> FALSE]
ScopeOf(def, locks) == [inside |-> TRUE, holdsLocks |-> locks # <<>>, retries |-> def.retry # {}]

RetryRefused(def, keyed, runner) ==
  \E p \in def.retry :
    \/ ~ValidRetry(p)
    \/ ToSet(p.on) \cap DatabaseKinds # {} /\ ~runner.classifies
    \/ keyed /\ ~runner.transactionalLedger

LocksUnheld(def, runner) ==
  \/ \E i \in DOMAIN def.steps :
       /\ def.steps[i].kind = "transaction"
       /\ \E j \in DOMAIN def.steps[i].locks : ~ValidLock(def.steps[i].locks[j])
  \/ DeclaresLocks(def.steps) /\ ~runner.hasLocks

\* A run inside a unit of work may add neither locks nor retries to locks or retries.
Nests(def, scope) ==
  /\ scope.inside
  /\ scope.holdsLocks \/ scope.retries \/ DeclaresLocks(def.steps) \/ def.retry # {}

Runnable(def, keyed, runner, scope) ==
  ~RetryRefused(def, keyed, runner) /\ ~LocksUnheld(def, runner) /\ ~Nests(def, scope)

-----------------------------------------------------------------------------
(* delayFor: the backoff after a failed attempt, with `draw` from 0 .. most - 1. *)

LesserOf(a, b) == IF a <= b THEN a ELSE b

BackoffCap(p) ==
  LesserOf(IF p.maxBackoffMs = Undefined THEN p.backoffMs * 32 ELSE p.maxBackoffMs, MaxBackoffMs)
BaseDelay(p, attempt) == LesserOf(BackoffCap(p), p.backoffMs * 2 ^ (attempt - 1))

\* How much of a delay is fixed, and below which bound the rest is drawn.
FixedPart(jitter, d) ==
  CASE jitter = "full" -> 0 [] jitter = "equal" -> d \div 2 [] OTHER -> d
DrawnBelow(jitter, d) ==
  CASE jitter = "full" -> d + 1 [] jitter = "equal" -> d - (d \div 2) + 1 [] OTHER -> 1

DelaysFor(p, attempt) ==
  LET d == BaseDelay(p, attempt)
  IN {FixedPart(p.jitter, d) + r : r \in 0 .. DrawnBelow(p.jitter, d) - 1}

-----------------------------------------------------------------------------
(* The checkpoint of a ctx: a graph of values, each with its kind, whether it is frozen, whether it  *)
(* has properties a clone drops, and the values it holds.                                           *)

ValueKinds == {"primitive", "function", "leaf", "container", "array", "plain", "instance"}
Opaque == {"primitive", "leaf", "function"}   \* nothing of ctx is looked for inside

\* What is reached from the values `roots`, looking into everything but what `stops` says.
ReachedFrom(g, roots, stops) ==
  LET closed(S) == \A n \in S : n \notin stops => g[n].holds \subseteq S
  IN {n \in DOMAIN g : \A S \in SUBSET DOMAIN g : roots \subseteq S /\ closed(S) => n \in S}

\* assertPlainGraph: the root may be any object, but shows all it holds; what it holds is plain.
Clonable(g, root) ==
  LET held == ReachedFrom(g, g[root].holds, {n \in DOMAIN g : g[n].kind \in Opaque} \cup {root})
  IN /\ ~g[root].hides
     /\ \A n \in held \ {root} :
          /\ g[n].kind \notin {"function", "instance"}
          /\ g[n].kind \in {"array", "plain"} => ~g[n].hides

\* mutablePathOf: a frozen root cannot be assigned to, so nothing under it may change.
CanStillChange(v) == v.kind # "primitive" /\ (~v.frozen \/ v.kind \in {"leaf", "container"})
FrozenThrough(g, root) ==
  LET changing == {n \in DOMAIN g : CanStillChange(g[n])}
      primitive == {n \in DOMAIN g : g[n].kind = "primitive"}
  IN ReachedFrom(g, g[root].holds, changing \cup primitive \cup {root}) \cap (changing \ {root}) = {}

\* cloneCheckpoint: refuse, nothing to restore, or a copy to restore in place.
CheckpointOf(g, root) ==
  IF g[root].kind \in {"primitive", "function"} THEN "nothing"
  ELSE IF ~Clonable(g, root) THEN "refused"
  ELSE IF ~g[root].frozen THEN "copy"
  ELSE IF FrozenThrough(g, root) THEN "nothing" ELSE "refused"
=============================================================================
