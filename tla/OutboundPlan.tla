---------------------------- MODULE OutboundPlan ----------------------------
(***************************************************************************)
(* What an outbound REST binding means: its options laid over the module   *)
(* defaults and the built-ins (src/outbound/outbound.plan.ts), and the     *)
(* request one message becomes (src/outbound/outbound.request.ts).         *)
(*                                                                         *)
(* An optional part of a plan is a set with at most one member.            *)
(***************************************************************************)
EXTENDS Options

-----------------------------------------------------------------------------
(* What an application may declare: the options of a binding, of a target, of a call. *)

IdempotencyOptions == {"enabled", "header", "key", "forward"}
BackoffOptions == {"fixed", "initialMs", "factor", "maxMs"}
RetryOptions == {"enabled", "maxAttempts", "backoff", "retryOn", "methods"}
RestOptions ==
  {"url", "target", "method", "headers", "mapHeaders", "traceHeaders", "serializer", "response",
   "timeoutMs", "idempotency", "retry", "mapError"}
TargetOptions == {"url", "method", "headers", "timeoutMs", "key"}

WellNamed(options, names) ==
  /\ DOMAIN options \subseteq names
  /\ DOMAIN Get(options, "idempotency", Empty) \subseteq IdempotencyOptions
  /\ DOMAIN Get(options, "retry", Empty) \subseteq RetryOptions
  /\ DOMAIN Get(Get(options, "retry", Empty), "backoff", Empty) \subseteq BackoffOptions

\* How an attempt fails; "timeout" is the program's own.
ServerFailures == [kind : {"http"}, status : 100 .. 599 \ 200 .. 299] \cup [kind : {"network"}]

-----------------------------------------------------------------------------
(* The plan. *)

Methods == {"GET", "HEAD", "DELETE", "POST", "PUT", "PATCH", "OPTIONS"}
DefaultAttempts == 3
DefaultTimeout == 30000

\* Infinite stands for what is no finite number of milliseconds.
Infinite == -1
ValidTimeout(ms) == ms \in Nat

IdempotencyOf(binding, defaults) ==
  LET merged == Layer(binding, defaults, "idempotency")
      keyed == "key" \in DOMAIN merged.options
  IN IF ~merged.enabled THEN {}
     ELSE {[header |-> Get(merged.options, "header", "idempotency-key"),
            key |-> keyed,
            forward |-> Get(merged.options, "forward", ~keyed)]}

RetryOf(binding, defaults) ==
  LET merged == Layer(binding, defaults, "retry")
  IN IF ~(merged.explicit /\ merged.enabled) THEN {}
     ELSE {[maxAttempts |-> Get(merged.options, "maxAttempts", DefaultAttempts),
            backoff |-> Get(merged.options, "backoff", Empty),
            classifier |-> "retryOn" \in DOMAIN merged.options,
            methods |-> Get(merged.options, "methods", {})]}

Power(base, n) ==
  LET power[i \in 0 .. n] == IF i = 0 THEN 1 ELSE base * power[i - 1] IN power[n]

AtMost(a, b) == IF a <= b THEN a ELSE b

\* The delay after a failed attempt: a number, or exponential from its settings.
Backoff(policy, attempt) ==
  LET o == policy.backoff IN
  IF "fixed" \in DOMAIN o THEN (IF o.fixed < 0 THEN 0 ELSE o.fixed)
  ELSE AtMost(Get(o, "maxMs", 10000), Get(o, "initialMs", 200) * Power(Get(o, "factor", 2), attempt - 1))

\* A failure is "http" with a status, "network" or "timeout".
Retryable(failure) ==
  failure.kind = "http" => failure.status \in {408, 429} \/ failure.status >= 500

\* The strategies that make the body and the reply, and the hooks; the target is never a default.
FormatsUsable(merged, resolver) == UsableIn(merged, {"serializer", "response"}, resolver)
HooksUsable(binding, merged, resolver) ==
  UsableIn(binding, {"target"}, resolver) /\ UsableIn(merged, {"mapHeaders", "mapError"}, resolver)

Nameless(binding) ==
  DOMAIN binding \cap {"name", "channel"} = {} \/ DOMAIN binding \cap {"url", "target"} = {}

\* What a binding is refused for, in the order the code looks.
Refused(binding, defaults, resolver) ==
  LET merged == Over(binding, defaults)
      idempotency == Layer(binding, defaults, "idempotency")
      retry == RetryOf(binding, defaults)
  IN \/ Nameless(binding)
     \/ Get(merged, "method", "POST") \notin Methods
     \/ ~FormatsUsable(merged, resolver)
     \/ ~ValidTimeout(Get(merged, "timeoutMs", DefaultTimeout))
     \/ \E i \in IdempotencyOf(binding, defaults) : i.header = ""
     \/ idempotency.enabled /\ ~UsableIn(idempotency.options, {"key"}, resolver)
     \/ \E r \in retry : r.maxAttempts \notin Nat \ {0}
     \/ retry # {} /\ ~UsableIn(Layer(binding, defaults, "retry").options, {"retryOn"}, resolver)
     \/ \E r \in retry : ~(r.methods \subseteq Methods)
     \/ ~HooksUsable(binding, merged, resolver)

\* The plan of a binding that is not refused.
Plan(binding, defaults) ==
  LET merged == Over(binding, defaults) IN
  [name |-> Get(binding, "name", Get(binding, "channel", "")),
   url |-> IF "url" \in DOMAIN binding THEN {binding.url} ELSE {},
   dynamic |-> "target" \in DOMAIN binding,
   method |-> Get(merged, "method", "POST"),
   headers |-> Over(Get(binding, "headers", Empty), Get(defaults, "headers", Empty)),
   trace |-> Get(merged, "traceHeaders", TRUE),
   timeoutMs |-> Get(merged, "timeoutMs", DefaultTimeout),
   idempotency |-> IdempotencyOf(binding, defaults),
   retry |-> RetryOf(binding, defaults)]

-----------------------------------------------------------------------------
(* The request of one message.  A message has the trace headers and perhaps a key; what the      *)
(* target resolver, the header mapper, the key resolver and the call add are options, too.       *)

\* Names are compared without regard to case; the last writer wins.
TraceHeaders(plan, message) ==
  IF plan.trace THEN [name \in DOMAIN message.trace \ {"idempotency-key"} |-> message.trace[name]]
  ELSE Empty

\* The explicit key, else the resolver's, else the message's: at most one, and never a new one.
\* "" is no key; Malformed is one that encodeInboundKey refuses.
Malformed == "malformed"

KeyOf(plan, message, target, call, resolved) ==
  LET explicit == Get(call, "key", Get(target, "key", "")) IN
  UNION {LET own == IF explicit # "" THEN explicit ELSE IF rules.key THEN resolved ELSE ""
             key == IF own # "" THEN own ELSE IF rules.forward THEN message.key ELSE ""
         IN IF key = "" THEN {} ELSE {[header |-> rules.header, key |-> key]}
         : rules \in plan.idempotency}

Serialized(method, type) ==
  IF method \in {"GET", "HEAD"} \/ type = "" THEN Empty ELSE [name \in {"content-type"} |-> type]

\* Static, trace, target, mapper and call headers in that order, the type of the body only where
\* none is set, and the key over everything.
Headers(plan, message, target, mapped, call, type, key) ==
  LET method == Get(target, "method", plan.method)
      layers == Over(Get(call, "headers", Empty),
                Over(mapped,
                Over(Get(target, "headers", Empty),
                Over(TraceHeaders(plan, message), plan.headers))))
  IN Over([name \in {k.header : k \in key} |-> (CHOOSE k \in key : k.header = name).key],
          Over(layers, Serialized(method, type)))

\* A message may end without a url, with an unknown method, a timeout of no use or such a key.
BadRequest(plan, message, target, call, resolved) ==
  \/ "url" \notin DOMAIN target /\ plan.url = {}
  \/ Get(target, "method", plan.method) \notin Methods
  \/ ~ValidTimeout(Get(call, "timeoutMs", Get(target, "timeoutMs", plan.timeoutMs)))
  \/ \E k \in KeyOf(plan, message, target, call, resolved) : k.key = Malformed

Request(plan, message, target, mapped, call, resolved, type) ==
  LET key == KeyOf(plan, message, target, call, resolved) IN
  [method |-> Get(target, "method", plan.method),
   key |-> {k.key : k \in key},
   headers |-> Headers(plan, message, target, mapped, call, type, key),
   timeoutMs |-> Get(call, "timeoutMs", Get(target, "timeoutMs", plan.timeoutMs))]

-----------------------------------------------------------------------------
(* Retries. *)

SafeMethods == {"GET", "HEAD", "OPTIONS"}

\* Repeating the request cannot do its work twice, or the application said that it may.
Repeatable(plan, request) ==
  \/ request.method \in SafeMethods
  \/ request.key # {}
  \/ \E policy \in plan.retry : request.method \in policy.methods

AttemptsLeft(plan, attempts) == \E policy \in plan.retry : attempts < policy.maxAttempts

\* Faulty: any failure with attempts left is retried.
RetryVerdictsAlways(plan, request, attempts, failure) ==
  IF ~AttemptsLeft(plan, attempts) THEN {FALSE} ELSE {Retryable(failure)}

\* Whether attempt number `attempts` may be followed by another.  A classifier of the application
\* says what it likes.
RetryVerdicts(plan, request, attempts, failure) ==
  IF ~(AttemptsLeft(plan, attempts) /\ Repeatable(plan, request)) THEN {FALSE}
  ELSE IF \E policy \in plan.retry : policy.classifier THEN BOOLEAN
  ELSE {Retryable(failure)}
=============================================================================
