---------------------------- MODULE OutboundCall ----------------------------
(***************************************************************************)
(* An outbound REST binding on a channel (src/outbound/outbound-rest.      *)
(* gateway.ts) that answers calls of the reply gateway: the handler builds *)
(* one request, sends it under a timer, repeats it as the plan allows      *)
(* (src/outbound/outbound.call.ts) and replies on the call's channel.  The *)
(* steps on that channel are those of RequestReply; nothing tells the      *)
(* exchange that its caller has given up.  The server is external: it may  *)
(* take a request late, lose it or answer anything, and does the work of   *)
(* an idempotency key once.                                                *)
(***************************************************************************)
EXTENDS RequestReply, OutboundPlan, FiniteSets

CONSTANTS
  BoundCalls,  \* which calls may have the binding as their responder
  Bindings, Defaults,   \* what the application declares, on the binding and for the module
  Targets,     \* what a target resolver returns
  Failures     \* the failures an attempt can meet besides its timeout

ASSUME DeclaredAssumption ==
  /\ BoundCalls \subseteq SUBSET Calls
  /\ \A o \in Bindings : WellNamed(o, RestOptions \cup {"name", "channel"})
  /\ \A o \in Defaults : WellNamed(o, RestOptions \ {"url", "target"})
  /\ \A target \in Targets : DOMAIN target \subseteq TargetOptions
  /\ Failures \subseteq ServerFailures

VARIABLES
  bound,       \* the calls whose channel the binding is subscribed to
  options,     \* the binding and the defaults of this application
  plan,        \* what bind made of them
  drafts,      \* what the plan makes of the message, for each of its targets: a request or none
  request,     \* per outbound call: the request built from its message, at most one
  attempts,    \* per outbound call: attempts made
  stage,       \* per outbound call: where exchange is
  clock,       \* per outbound call: the timer of the attempt is armed
  wire,        \* per outbound call: the attempts whose request has not reached the server
  effects      \* the attempts <<call, number>> whose request did its work

outboundVars == <<bound, options, plan, drafts, request, attempts, stage, clock, wire, effects>>
allVars == <<vars, outboundVars>>

\* The calls repeat one message of the client, with its key.
theMessage == [key |-> "message", trace |-> [h \in {"x-trace-id", "idempotency-key"} |-> "message"]]

Draft(target) ==
  IF BadRequest(plan, theMessage, target, Empty, "business") THEN {}
  ELSE {Request(plan, theMessage, target, Empty, Empty, "business", "application/json")}

OutboundInit ==
  /\ Init
  /\ bound \in BoundCalls
  /\ options \in {o \in [binding : Bindings, defaults : Defaults] : ~Refused(o.binding, o.defaults, TRUE)}
  /\ plan = Plan(options.binding, options.defaults)
  /\ drafts = {Draft(target) : target \in IF plan.dynamic THEN Targets ELSE {Empty}}
  /\ request = [c \in Calls |-> {}]
  /\ attempts = [c \in Calls |-> 0]
  /\ stage = [c \in Calls |-> "idle"]
  /\ clock = [c \in Calls |-> FALSE]
  /\ wire = [c \in Calls |-> {}]
  /\ effects = {}
-----------------------------------------------------------------------------
(* The exchange. *)

\* Faulty: one timer for the whole exchange.
SendAttemptTimedOnce(c, r) ==
  /\ attempts' = [attempts EXCEPT ![c] = @ + 1]
  /\ wire' = [wire EXCEPT ![c] = @ \cup {attempts[c] + 1}]
  /\ clock' = [clock EXCEPT ![c] = r.timeoutMs > 0 /\ attempts[c] = 0]
  /\ stage' = [stage EXCEPT ![c] = "inFlight"]

\* fetch is called and, unless the timeout is 0, the timer is armed.
SendAttempt(c, r) ==
  /\ attempts' = [attempts EXCEPT ![c] = @ + 1]
  /\ wire' = [wire EXCEPT ![c] = @ \cup {attempts[c] + 1}]
  /\ clock' = [clock EXCEPT ![c] = r.timeoutMs > 0]
  /\ stage' = [stage EXCEPT ![c] = "inFlight"]

Fail(c) == stage' = [stage EXCEPT ![c] = "failed"]

\* The handler gets the message: the target is resolved and the request built, or that throws.
Begin(c) ==
  /\ flow[c] = "running" /\ stage[c] = "idle"
  /\ \E draft \in drafts :
       \/ draft = {} /\ Fail(c) /\ UNCHANGED <<request, attempts, clock, wire>>
       \/ /\ request' = [request EXCEPT ![c] = draft]
          /\ \E r \in draft : SendAttempt(c, r)
  /\ UNCHANGED <<vars, bound, options, plan, drafts, effects>>

\* The attempt failed: the delay before the next one, or the end; mapError changes the error only.
AttemptFails(c, failure) ==
  /\ stage[c] = "inFlight"
  /\ clock' = [clock EXCEPT ![c] = FALSE]
  /\ \E r \in request[c] : \E again \in RetryVerdicts(plan, r, attempts[c], failure) :
       stage' = [stage EXCEPT ![c] = IF again THEN "backingOff" ELSE "failed"]
  /\ UNCHANGED <<vars, bound, options, plan, drafts, request, attempts, wire, effects>>

\* The timer of the attempt beats the answer: the fetch is aborted, the request may be anywhere.
AttemptTimesOut(c) == clock[c] /\ AttemptFails(c, [kind |-> "timeout"])

\* A refusal of the server needs a request that arrived; a network error happens at any time.
AttemptIsRefused(c) ==
  \E failure \in Failures :
    /\ failure.kind = "http" => attempts[c] \notin wire[c]
    /\ AttemptFails(c, failure)

\* A 2xx response; the response mapper may throw, which nothing retries.
AttemptSucceeds(c) ==
  /\ stage[c] = "inFlight" /\ attempts[c] \notin wire[c]
  /\ clock' = [clock EXCEPT ![c] = FALSE]
  /\ \E end \in {"answered", "failed"} : stage' = [stage EXCEPT ![c] = end]
  /\ UNCHANGED <<vars, bound, options, plan, drafts, request, attempts, wire, effects>>

\* The sleep is over.
Again(c) ==
  /\ stage[c] = "backingOff"
  /\ \E r \in request[c] : SendAttempt(c, r)
  /\ UNCHANGED <<vars, bound, options, plan, drafts, request, effects>>

\* The handler replies; without anybody there its send throws, and so does the handler.
Answer(c) ==
  /\ stage[c] = "answered"
  /\ Reply(c) \/ (ReplyLate(c) /\ flow'[c] # "running")
  /\ stage' = [stage EXCEPT ![c] = "replied"]
  /\ UNCHANGED <<bound, options, plan, drafts, request, attempts, clock, wire, effects>>

HandlerEnds(c) ==
  /\ \/ stage[c] = "replied" /\ FlowEnds(c) /\ flow'[c] = "ok"
     \/ stage[c] = "failed" /\ FlowEnds(c) /\ flow'[c] = "failed"
  /\ UNCHANGED outboundVars

-----------------------------------------------------------------------------
(* The server. *)

\* The key a request carries, or a name of its own for its work.
WorkOf(c, n) == IF \E r \in request[c] : r.key # {}
                THEN {r.key : r \in request[c]} ELSE {{<<c, n>>}}

\* A request arrives, perhaps long after its attempt was given up: it does its work or is refused.
Arrive(c) ==
  /\ \E n \in wire[c] :
       /\ wire' = [wire EXCEPT ![c] = @ \ {n}]
       /\ effects' \in {effects} \cup
            (IF \E e \in effects : WorkOf(e[1], e[2]) = WorkOf(c, n) THEN {} ELSE {effects \cup {<<c, n>>}})
  /\ UNCHANGED <<vars, bound, options, plan, drafts, request, attempts, stage, clock>>

-----------------------------------------------------------------------------
Exchange(c) == Begin(c) \/ Again(c) \/ Answer(c) \/ HandlerEnds(c)

OutboundNext ==
  \/ \E c \in Calls : (Caller(c) \/ TimerFires(c)) /\ UNCHANGED outboundVars
  \/ \E c \in Calls \ bound : Responder(c) /\ UNCHANGED outboundVars
  \/ \E c \in bound : \/ Exchange(c) \/ AttemptTimesOut(c) \/ AttemptIsRefused(c)
                         \/ AttemptSucceeds(c) \/ Arrive(c)
  \/ Quiet /\ UNCHANGED outboundVars

OutboundSpec == OutboundInit /\ [][OutboundNext]_allVars

\* The program's own steps and its timers happen; the server owes nothing.
OutboundFairSpec ==
  /\ OutboundSpec
  /\ \A c \in Calls : /\ WF_allVars(Caller(c) /\ UNCHANGED outboundVars)
                      /\ WF_allVars(TimerFires(c) /\ UNCHANGED outboundVars)
  /\ \A c \in Awaited : WF_allVars(c \notin bound /\ FlowEnds(c) /\ UNCHANGED outboundVars)
  /\ \A c \in Calls : /\ WF_allVars(c \in bound /\ Exchange(c))
                      /\ WF_allVars(AttemptTimesOut(c))
-----------------------------------------------------------------------------
\* Work is done as often as the declarations license, whatever is late, lost, retried by the plan or
\* repeated by the client beside it: once in all by default, because every attempt carries the key of
\* the message unless a target brings another; once per call without a key, unless the method is safe
\* or listed.
MessageKeyed ==
  /\ "idempotency" \notin DOMAIN options.binding \cup DOMAIN options.defaults
  /\ \A target \in Targets : "key" \notin DOMAIN target
EffectsAreLicensed ==
  /\ MessageKeyed => Cardinality(effects) <= 1
  /\ \A c \in bound : \A r \in request[c] :
       r.key = {} /\ r.method \notin SafeMethods
                  /\ (\A policy \in plan.retry : r.method \notin policy.methods)
         => Cardinality({e \in effects : e[1] = c}) <= 1

\* Every call settles, one behind a queue whatever its responder does; and every exchange ends although
\* the server may never answer and nobody tells it that its caller gave up, which the caller of a
\* queued call does at its own timeout.  Only timeoutMs 0, no limit for an attempt, gives that up: for
\* the exchange, and for the caller that awaits it.
Timed(c) == c \in bound => \A r \in request[c] : r.timeoutMs > 0
EverythingSettles ==
  \A c \in Calls :
    at[c] = "sending" ~> /\ at[c] = "done" \/ (c \in Awaited /\ ~Timed(c))
                         /\ c \in bound \cup Awaited => flow[c] # "running" \/ ~Timed(c)
=============================================================================
