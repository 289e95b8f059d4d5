--------------------------- MODULE MCOutboundCall ---------------------------
(***************************************************************************)
(* Instances of OutboundCall, and with it of RequestReply, for TLC; and    *)
(* the plan of a binding compared with what its options are documented to  *)
(* mean, over all combinations of a few.                                   *)
(***************************************************************************)
EXTENDS OutboundCall, TLC

CONSTANTS first, second

AllBoundCalls == {{}, Calls}

At(url) == [channel |-> "out", url |-> url]

AllBindings ==
  {At("u"),
   At("u") @@ [retry |-> Off],
   At("u") @@ [retry |-> [maxAttempts |-> 2]],
   At("u") @@ [retry |-> [maxAttempts |-> 2, methods |-> {"POST"}], idempotency |-> Off],
   At("u") @@ [retry |-> [maxAttempts |-> 2, retryOn |-> "function"], idempotency |-> [key |-> "ref"]],
   At("u") @@ [retry |-> Off, timeoutMs |-> 0],
   At("u") @@ [retry |-> [maxAttempts |-> 2], idempotency |-> Off],
   [name |-> "n", target |-> "function", retry |-> [maxAttempts |-> 2], idempotency |-> Off]}

AllDefaults == {[retry |-> [maxAttempts |-> 3]]}

AllTargets == {[url |-> "u"], [url |-> "u", method |-> "GET"], Empty}

\* What TLC evaluates about the plan, over combinations of options.

Features == {Empty, Off, [enabled |-> TRUE], [maxAttempts |-> 5], [header |-> "x-key"], [key |-> "function"]}
With(feature, is) == IF is = Empty THEN At("u") ELSE At("u") @@ [f \in {feature} |-> is]

\* Documented: `idempotency` is on unless switched off, `retry` off unless configured, `enabled` is
\* "not inherited from the module default when a binding passes an object", other options are.
ASSUME FeaturesAsDocumented ==
  \A own \in Features, fallback \in Features :
    LET spoken == {f \in {own, fallback} : f # Empty}
        nearest == IF own # Empty THEN own ELSE fallback
        off == spoken # {} /\ nearest = Off
        says(option) == spoken # {} /\ \E f \in spoken : option \in DOMAIN f
    IN /\ (IdempotencyOf(With("idempotency", own), With("idempotency", fallback)) = {}) <=> off
       /\ (RetryOf(With("retry", own), With("retry", fallback)) = {}) <=> (off \/ spoken = {})
       /\ \A i \in IdempotencyOf(With("idempotency", own), With("idempotency", fallback)) :
            /\ i.header = (IF says("header") THEN "x-key" ELSE "idempotency-key")
            /\ i.forward = ~says("key")
       /\ \A r \in RetryOf(With("retry", own), With("retry", fallback)) :
            r.maxAttempts = (IF says("maxAttempts") THEN 5 ELSE 3)

\* Documented: "Header precedence, lowest first: serializer content type, static headers, trace
\* headers, target headers, mapHeaders, call headers, idempotency header"; the key of a call wins
\* over the target's, the resolver's and the message's, and without rules none leaves.
Sources == {Empty, "content-type" :> "own", "idempotency-key" :> "own"}
ASSUME HeadersAsDocumented ==
  \A static \in Sources, target \in Sources, mapped \in Sources, call \in Sources,
     switch \in {Empty, Off}, resolved \in {"", "business"} :
    LET p == Plan(With("idempotency", switch) @@ [headers |-> static], Empty)
        sent == Request(p, theMessage, [headers |-> target], mapped, [headers |-> call], resolved, "json")
        set(name) == \E layer \in {static, target, mapped, call} : name \in DOMAIN layer
    IN /\ sent.headers["content-type"] = (IF set("content-type") THEN "own" ELSE "json")
       /\ switch = Off => sent.key = {} /\ ("idempotency-key" \in DOMAIN sent.headers => set("idempotency-key"))
       /\ switch # Off => sent.key = {"message"} /\ sent.headers["idempotency-key"] = "message"

\* Documented: "Delay before the second attempt. Default 200", a factor per attempt, an upper bound.
ASSUME BackoffAsDocumented ==
  \A backoff \in {Empty, [initialMs |-> 7], [factor |-> 3], [maxMs |-> 500], [fixed |-> 9], [fixed |-> -9]} :
    \A n \in 1 .. 6 :
      LET delay == Backoff([backoff |-> backoff], n) IN
      /\ delay \in 0 .. Get(backoff, "maxMs", 10000)
      /\ backoff = Empty => delay = AtMost(10000, <<200, 400, 800, 1600, 3200, 6400>>[n])

AllFailures == {[kind |-> "http", status |-> 503], [kind |-> "http", status |-> 404], [kind |-> "network"]}
=============================================================================
