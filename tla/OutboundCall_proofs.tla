------------------------ MODULE OutboundCall_proofs ------------------------
(***************************************************************************)
(* Theorems about calls of the reply gateway (RequestReply) and about the  *)
(* outbound exchange that may answer them (OutboundCall): the exchange is  *)
(* one of the responders that RequestReply allows, so what holds of a call *)
(* with any responder holds with this one; and the work a server does for  *)
(* the exchange is what the declarations license.                          *)
(***************************************************************************)
EXTENDS OutboundCall, FiniteSetTheorems, TLAPS

-----------------------------------------------------------------------------
(* One call: what the caller, its wait and its responder know of each other. *)

\* Before the call nothing exists.  While it runs, its channel is registered; a pending wait has
\* its timer and its subscriber and has seen no reply; a wait that lost its subscriber timed out.
\* An awaited responder that still runs has its caller in the send.
Known(c) ==
  /\ at[c] = "idle" => /\ flow[c] = "none" /\ replies[c] = 0 /\ wait[c] = Pending
                       /\ ~registered[c] /\ ~subscribed[c] /\ ~timer[c] /\ ~timedOut[c]
  /\ at[c] \in {"sending", "waiting"} =>
       /\ registered[c] /\ flow[c] # "none"
       /\ wait[c] = Pending => timer[c] /\ subscribed[c] /\ replies[c] = 0
       /\ wait[c].is # "cancelled"
       /\ ~subscribed[c] => timedOut[c]
  /\ at[c] = "done" => ~registered[c] /\ ~subscribed[c] /\ ~timer[c] /\ wait[c] # Pending
  /\ timer[c] => wait[c] = Pending
  /\ timedOut[c] => wait[c] = Rejected("timeout")
  /\ wait[c] = Rejected("timeout") => timedOut[c]
  /\ wait[c].is = "message" => wait[c].msg = 1
  /\ c \in Awaited => /\ flow[c] = "running" => at[c] = "sending"
                      /\ flow[c] = "lateReply" => timedOut[c]
                      /\ flow[c] # "gone"

Genuine(c) ==
  /\ outcome[c].is \in {"pending", "message", "timeout", "error"}
  /\ outcome[c].is = "message" => outcome[c].msg = 1
  /\ outcome[c].is = "timeout" => timedOut[c]

CallInv == \A c \in Calls : Known(c) /\ Genuine(c)

LEMMA InitCalls == Init => TypeOK /\ CallInv
  BY CallsAssumption DEF Init, TypeOK, CallInv, Known, Genuine, Waits, Pending, Rejected, FlowEnd

\* A step of one call keeps its types and leaves the other calls alone.
Others(c) ==
  \A d \in Calls \ {c} :
    /\ at'[d] = at[d] /\ registered'[d] = registered[d] /\ subscribed'[d] = subscribed[d]
    /\ timer'[d] = timer[d] /\ wait'[d] = wait[d] /\ timedOut'[d] = timedOut[d]
    /\ flow'[d] = flow[d] /\ replies'[d] = replies[d] /\ outcome'[d] = outcome[d]

LEMMA StepFrame ==
  ASSUME TypeOK, NEW c \in Calls, Caller(c) \/ TimerFires(c) \/ Responder(c)
  PROVE  Others(c)
<1> USE DEF TypeOK, Others, Settled
<1>1. CASE Call(c) BY <1>1 DEF Call
<1>2. CASE Sent(c) BY <1>2 DEF Sent
<1>3. CASE SendRejects(c) BY <1>3 DEF SendRejects, Leave, Cancelled
<1>4. CASE Receive(c) BY <1>4 DEF Receive, Leave, Cancelled
<1>5. CASE TimerFires(c) BY <1>5 DEF TimerFires
<1>6. CASE Reply(c) BY <1>6 DEF Reply
<1>7. CASE ReplyLate(c) BY <1>7 DEF ReplyLate
<1>8. CASE FlowEnds(c) BY <1>8 DEF FlowEnds
<1> QED BY <1>1, <1>2, <1>3, <1>4, <1>5, <1>6, <1>7, <1>8 DEF Caller, Responder

LEMMA StepTypes ==
  ASSUME TypeOK, CallInv, NEW c \in Calls, Caller(c) \/ TimerFires(c) \/ Responder(c)
  PROVE  TypeOK'
<1>0. Known(c) /\ MaxReplies \in Nat
  BY CallsAssumption DEF CallInv
<1> USE <1>0 DEF TypeOK, Known, Settled, Waits, Pending, Rejected, Message, FlowEnd
<1>1. CASE Call(c) BY <1>1 DEF Call
<1>2. CASE Sent(c) BY <1>2 DEF Sent
<1>3. CASE SendRejects(c) BY <1>3 DEF SendRejects, Leave, Cancelled, SendError
<1>4. CASE Receive(c) BY <1>4 DEF Receive, Leave, Cancelled
<1>5. CASE TimerFires(c) BY <1>5 DEF TimerFires
<1>6. CASE Reply(c) BY <1>6 DEF Reply
<1>7. CASE ReplyLate(c) BY <1>7 DEF ReplyLate
<1>8. CASE FlowEnds(c) BY <1>8 DEF FlowEnds
<1> QED BY <1>1, <1>2, <1>3, <1>4, <1>5, <1>6, <1>7, <1>8 DEF Caller, Responder

LEMMA StepKnown ==
  ASSUME TypeOK, NEW c \in Calls, Known(c), Genuine(c), Caller(c) \/ TimerFires(c) \/ Responder(c)
  PROVE  Known(c)' /\ Genuine(c)'
<1>0. MaxReplies \in Nat
  BY CallsAssumption
<1> USE <1>0 DEF TypeOK, Known, Genuine, Settled, Waits, Pending, Rejected, Message, FlowEnd
<1>1. CASE Call(c) BY <1>1 DEF Call
<1>2. CASE Sent(c) BY <1>2 DEF Sent
<1>3. CASE SendRejects(c) BY <1>3 DEF SendRejects, Leave, Cancelled, SendError
<1>4. CASE Receive(c) BY <1>4 DEF Receive, Leave, Cancelled
<1>5. CASE TimerFires(c) BY <1>5 DEF TimerFires
<1>6. CASE Reply(c) BY <1>6 DEF Reply
<1>7. CASE ReplyLate(c) BY <1>7 DEF ReplyLate
<1>8. CASE FlowEnds(c) BY <1>8 DEF FlowEnds
<1> QED BY <1>1, <1>2, <1>3, <1>4, <1>5, <1>6, <1>7, <1>8 DEF Caller, Responder

LEMMA CallStep == TypeOK /\ CallInv /\ [Next]_vars => (TypeOK /\ CallInv)'
<1> SUFFICES ASSUME TypeOK, CallInv, [Next]_vars PROVE (TypeOK /\ CallInv)'
  OBVIOUS
<1>1. ASSUME NEW c \in Calls, Caller(c) \/ TimerFires(c) \/ Responder(c)
      PROVE  (TypeOK /\ CallInv)'
  <2>1. TypeOK' /\ Others(c)
    BY <1>1, StepTypes, StepFrame
  <2>2. Known(c)' /\ Genuine(c)'
    BY <1>1, StepKnown DEF CallInv
  <2>3. ASSUME NEW d \in Calls \ {c} PROVE Known(d)' /\ Genuine(d)'
    BY <2>1, <2>3 DEF CallInv, Others, Known, Genuine, Pending, Rejected
  <2> QED BY <2>1, <2>2, <2>3 DEF CallInv
<1>2. CASE UNCHANGED vars
  BY <1>2 DEF vars, TypeOK, CallInv, Known, Genuine
<1> QED BY <1>1, <1>2 DEF Next, Quiet

LEMMA CallsSafe == Spec => [](TypeOK /\ CallInv)
  BY InitCalls, CallStep, PTL DEF Spec

\* A call leaves no timer, no subscription and no reply channel behind, and while it waits it has
\* them (sendAndReceive and its finally block, openFirstMessageWait), for any number of calls and
\* replies and whatever the responders do.
THEOREM CallsLeaveNothing == Spec => []NothingLeaks
<1>1. TypeOK /\ CallInv => NothingLeaks
  BY DEF TypeOK, CallInv, Known, NothingLeaks
<1> QED BY <1>1, CallsSafe, PTL

LEMMA Outcomes == TypeOK /\ CallInv => OutcomesAreGenuine
  BY CallsAssumption DEF TypeOK, CallInv, Known, Genuine, OutcomesAreGenuine, FirstReplyWins,
     RepliesAreTolerated

\* A call settles with the first reply, a timeout that did pass, or the error of its own send, and an
\* awaited responder that replies late or again never fails before the timeout (sendAndReceive).
THEOREM CallsEndGenuinely == Spec => []OutcomesAreGenuine
  BY CallsSafe, Outcomes, PTL

-----------------------------------------------------------------------------
(* The outbound exchange is a responder. *)

\* A step of the composition is a step of the calls, or leaves them alone.
LEMMA ExchangeStep == bound \subseteq Calls /\ [OutboundNext]_allVars => [Next]_vars
<1> SUFFICES ASSUME bound \subseteq Calls, [OutboundNext]_allVars PROVE [Next]_vars
  OBVIOUS
<1>1. ASSUME NEW c \in Calls, Caller(c) \/ TimerFires(c) \/ Responder(c) PROVE [Next]_vars
  BY <1>1 DEF Next
<1>2. ASSUME NEW c \in bound,
             Exchange(c) \/ AttemptTimesOut(c) \/ AttemptIsRefused(c) \/ AttemptSucceeds(c) \/ Arrive(c)
      PROVE  UNCHANGED vars \/ Responder(c)
  BY <1>2 DEF Exchange, Begin, Again, Answer, HandlerEnds, AttemptTimesOut, AttemptIsRefused,
     AttemptFails, AttemptSucceeds, Arrive, Responder
<1> QED BY <1>1, <1>2 DEF OutboundNext, Next, Quiet, allVars

\* Who is bound and what was declared is decided once.
LEMMA Decided ==
  [OutboundNext]_allVars => UNCHANGED <<bound, options, plan, drafts>>
  BY DEF OutboundNext, allVars, outboundVars, Exchange, Begin, Again, Answer, HandlerEnds,
     AttemptTimesOut, AttemptIsRefused, AttemptFails, AttemptSucceeds, Arrive

\* Whatever a binding is declared to do, its exchange behaves like a responder of RequestReply, late
\* replies and errors included: the handler of startOutboundRest replies through the same channels.
THEOREM ExchangeImplementsResponder == OutboundSpec => Spec
<1>1. OutboundInit => Init /\ bound \subseteq Calls
  BY DeclaredAssumption DEF OutboundInit
<1>2. bound \subseteq Calls /\ [OutboundNext]_allVars => (bound \subseteq Calls)'
  BY Decided
<1> QED BY <1>1, <1>2, ExchangeStep, PTL DEF OutboundSpec, Spec

-----------------------------------------------------------------------------
(* The work of the server. *)

\* Every request carries the message's key when nothing is declared about keys.
LEMMA DraftsCarryTheKey ==
  ASSUME NEW o, NEW target, "idempotency" \notin DOMAIN o.binding \cup DOMAIN o.defaults,
         "key" \notin DOMAIN target, plan = Plan(o.binding, o.defaults),
         NEW r \in Draft(target)
  PROVE  r.key = {"message"}
<1> DEFINE rules == [header |-> "idempotency-key", key |-> FALSE, forward |-> TRUE]
<1>1. plan.idempotency = {rules}
  <2>1. DOMAIN Empty = {}
    BY DEF Empty
  <2>2. Layer(o.binding, o.defaults, "idempotency").options = Over(Empty, Empty)
    BY DEF Layer, Get
  <2>3. Layer(o.binding, o.defaults, "idempotency").enabled = TRUE
    BY <2>1 DEF Layer, Get
  <2>4. DOMAIN Over(Empty, Empty) = {}
    BY <2>1 DEF Over
  <2>5. IdempotencyOf(o.binding, o.defaults) = {rules}
    <3> DEFINE merged == Layer(o.binding, o.defaults, "idempotency")
    <3>1. Get(merged.options, "header", "idempotency-key") = "idempotency-key"
      BY <2>2, <2>4 DEF Get
    <3>2. ("key" \in DOMAIN merged.options) = FALSE
      BY <2>2, <2>4
    <3>3. Get(merged.options, "forward", ~("key" \in DOMAIN merged.options)) = TRUE
      BY <2>2, <2>4, <3>2 DEF Get
    <3>4. merged.enabled = TRUE
      BY <2>3
    <3> HIDE DEF merged
    <3>5. IdempotencyOf(o.binding, o.defaults) =
            IF ~merged.enabled THEN {}
            ELSE {[header |-> Get(merged.options, "header", "idempotency-key"),
                   key |-> "key" \in DOMAIN merged.options,
                   forward |-> Get(merged.options, "forward", ~("key" \in DOMAIN merged.options))]}
      BY Zenon DEF IdempotencyOf, merged
    <3> QED BY <3>1, <3>2, <3>3, <3>4, <3>5, Zenon
  <2> QED BY <2>5 DEF Plan
<1>2. KeyOf(plan, theMessage, target, Empty, "business") = {[header |-> rules.header, key |-> "message"]}
  <2>1. Get(Empty, "key", Get(target, "key", "")) = ""
    BY DEF Get, Empty
  <2>2. theMessage.key = "message"
    BY DEF theMessage
  <2> HIDE DEF rules
  <2>3. rules.key = FALSE /\ rules.forward = TRUE
    BY DEF rules
  <2> QED BY <1>1, <2>1, <2>2, <2>3 DEF KeyOf
<1>3. r = Request(plan, theMessage, target, Empty, Empty, "business", "application/json")
  BY DEF Draft
<1>4. r.key = {k.key : k \in KeyOf(plan, theMessage, target, Empty, "business")}
  <2> DEFINE key == KeyOf(plan, theMessage, target, Empty, "business")
  <2>1. Request(plan, theMessage, target, Empty, Empty, "business", "application/json").key
          = {k.key : k \in key}
    BY DEF Request
  <2> QED BY <1>3, <2>1
<1>5. [header |-> rules.header, key |-> "message"].key = "message"
  OBVIOUS
<1> HIDE DEF rules
<1> QED BY <1>2, <1>4, <1>5

Stages == {"idle", "inFlight", "backingOff", "answered", "replied", "failed"}

\* What is declared, and the types of the exchanges; a request is one of the drafts.
DeclaredInv ==
  /\ bound \subseteq Calls
  /\ plan = Plan(options.binding, options.defaults)
  /\ \A draft \in drafts : \E target \in Targets \cup {Empty} : draft = Draft(target)

ExchangeTypes ==
  /\ request \in [Calls -> drafts \cup {{}}]
  /\ attempts \in [Calls -> Nat] /\ stage \in [Calls -> Stages]
  /\ wire \in [Calls -> SUBSET Nat] /\ effects \subseteq Calls \X Nat

\* An attempt needs a request; without a licence to repeat it there is one attempt.
Licensed(c) ==
  /\ stage[c] = "idle" => attempts[c] = 0
  /\ attempts[c] > 0 => request[c] # {}
  /\ wire[c] \subseteq 1 .. attempts[c]
  /\ \A r \in request[c] : ~Repeatable(plan, r) => attempts[c] <= 1 /\ stage[c] # "backingOff"

EffectsInv ==
  /\ \A e \in effects : e[2] \in 1 .. attempts[e[1]] /\ request[e[1]] # {}
  /\ MessageKeyed => \A e, f \in effects : e = f

WorkInv == DeclaredInv /\ ExchangeTypes /\ (\A c \in Calls : Licensed(c)) /\ EffectsInv

LEMMA InitWork == OutboundInit => WorkInv
<1> SUFFICES ASSUME OutboundInit PROVE WorkInv
  OBVIOUS
<1>1. DeclaredInv
  <2>1. \A draft \in drafts : \E target \in Targets \cup {Empty} : draft = Draft(target)
    BY DEF OutboundInit
  <2> QED BY <2>1, DeclaredAssumption DEF OutboundInit, DeclaredInv
<1>2. ExchangeTypes
  BY DEF OutboundInit, ExchangeTypes, Stages
<1>3. ASSUME NEW c \in Calls PROVE Licensed(c)
  BY DEF OutboundInit, Licensed
<1> QED BY <1>1, <1>2, <1>3 DEF OutboundInit, WorkInv, EffectsInv

LEMMA DeclaredStays ==
  DeclaredInv /\ UNCHANGED <<bound, options, plan, drafts>> => DeclaredInv'
<1> SUFFICES ASSUME DeclaredInv, UNCHANGED <<bound, options, plan, drafts>> PROVE DeclaredInv'
  OBVIOUS
<1>1. \A target : Draft(target)' = Draft(target)
  BY DEF Draft
<1>2. \A draft \in drafts : \E target \in Targets \cup {Empty} : draft = Draft(target)'
  BY <1>1 DEF DeclaredInv
<1> QED BY <1>2 DEF DeclaredInv

\* A message becomes one request at most.
LEMMA OneRequest ==
  ASSUME DeclaredInv, ExchangeTypes, NEW c \in Calls, NEW r \in request[c], NEW q \in request[c]
  PROVE  r = q
<1>1. request[c] \in drafts
  BY DEF ExchangeTypes
<1>2. PICK target : request[c] = Draft(target)
  BY <1>1 DEF DeclaredInv
<1> QED BY <1>2 DEF Draft

\* By default every request carries the message's key.
LEMMA OneKey ==
  ASSUME DeclaredInv, ExchangeTypes, MessageKeyed, NEW c \in Calls, NEW r \in request[c]
  PROVE  r.key = {"message"}
<1>1. request[c] \in drafts
  BY DEF ExchangeTypes
<1>2. PICK target \in Targets \cup {Empty} : request[c] = Draft(target)
  BY <1>1 DEF DeclaredInv
<1>3. "key" \notin DOMAIN target
  BY DEF MessageKeyed, Empty
<1> QED BY <1>2, <1>3, DraftsCarryTheKey DEF DeclaredInv, MessageKeyed

\* A step of one exchange.
ExchangeFrame(c) ==
  \A d \in Calls \ {c} :
    request'[d] = request[d] /\ attempts'[d] = attempts[d] /\ stage'[d] = stage[d] /\ wire'[d] = wire[d]

LEMMA ExchangeKeeps ==
  ASSUME WorkInv, NEW c \in Calls, UNCHANGED <<bound, options, plan, drafts>>,
         Exchange(c) \/ AttemptTimesOut(c) \/ AttemptIsRefused(c) \/ AttemptSucceeds(c)
  PROVE  /\ ExchangeTypes' /\ Licensed(c)' /\ ExchangeFrame(c) /\ effects' = effects
         /\ attempts'[c] >= attempts[c] /\ (request[c] # {} => request'[c] # {})
<1> DEFINE Goal == /\ ExchangeTypes' /\ Licensed(c)' /\ ExchangeFrame(c) /\ effects' = effects
                   /\ attempts'[c] >= attempts[c] /\ (request[c] # {} => request'[c] # {})
<1> SUFFICES Goal
  OBVIOUS
<1>0. ExchangeTypes /\ Licensed(c) /\ DeclaredInv
  BY DEF WorkInv
<1> USE <1>0 DEF ExchangeTypes, Licensed, ExchangeFrame, Stages
<1>1. CASE Begin(c)
  <2>1. PICK draft \in drafts :
          \/ draft = {} /\ Fail(c) /\ UNCHANGED <<request, attempts, clock, wire>>
          \/ /\ request' = [request EXCEPT ![c] = draft]
             /\ \E r \in draft : SendAttempt(c, r)
    BY <1>1 DEF Begin
  <2>2. effects' = effects /\ stage[c] = "idle" /\ attempts[c] = 0
    BY <1>1 DEF Begin
  <2> QED BY <2>1, <2>2 DEF SendAttempt, Fail
<1>2. CASE Again(c)
  <2>1. PICK r \in request[c] : SendAttempt(c, r)
    BY <1>2 DEF Again
  <2> QED BY <1>2, <2>1 DEF Again, SendAttempt
<1>3. CASE Answer(c)
  BY <1>3 DEF Answer
<1>4. CASE HandlerEnds(c)
  BY <1>4 DEF HandlerEnds, outboundVars
<1>5. ASSUME NEW failure, AttemptFails(c, failure) PROVE Goal
  <2>1. PICK r \in request[c] : \E again \in RetryVerdicts(plan, r, attempts[c], failure) :
          stage' = [stage EXCEPT ![c] = IF again THEN "backingOff" ELSE "failed"]
    BY <1>5 DEF AttemptFails
  <2>2. ~Repeatable(plan, r) => stage'[c] # "backingOff"
    BY <2>1 DEF RetryVerdicts
  <2>3. \A q \in request[c] : q = r
    BY <2>1, OneRequest
  <2>4. stage' \in [Calls -> Stages]
    BY <2>1
  <2> QED BY <1>5, <2>1, <2>2, <2>3, <2>4 DEF AttemptFails
<1>6. CASE AttemptSucceeds(c)
  BY <1>6 DEF AttemptSucceeds
<1> QED BY <1>1, <1>2, <1>3, <1>4, <1>5, <1>6 DEF Exchange, AttemptTimesOut, AttemptIsRefused

LEMMA ArriveKeeps ==
  ASSUME WorkInv, NEW c \in Calls, UNCHANGED <<bound, options, plan, drafts>>, Arrive(c)
  PROVE  WorkInv'
<1> USE DEF WorkInv, ExchangeTypes
<1>0. UNCHANGED <<request, attempts, stage>>
  BY DEF Arrive
<1>1. PICK n \in wire[c] :
        /\ wire' = [wire EXCEPT ![c] = @ \ {n}]
        /\ effects' \in {effects} \cup
             (IF \E e \in effects : WorkOf(e[1], e[2]) = WorkOf(c, n) THEN {} ELSE {effects \cup {<<c, n>>}})
  BY DEF Arrive
<1>2. n \in 1 .. attempts[c] /\ request[c] # {} /\ n \in Nat
  BY <1>1 DEF Licensed
<1>3. effects' = effects \/ (effects' = effects \cup {<<c, n>>}
                             /\ \A e \in effects : WorkOf(e[1], e[2]) # WorkOf(c, n))
  BY <1>1
<1>4. ExchangeTypes'
  BY <1>0, <1>1, <1>2, <1>3
<1>5. \A d \in Calls : Licensed(d)'
  BY <1>0, <1>1 DEF Licensed
<1>6. DeclaredInv'
  BY DeclaredStays
<1>7. \A e \in effects' : e[2] \in 1 .. attempts'[e[1]] /\ request'[e[1]] # {}
  BY <1>0, <1>2, <1>3 DEF EffectsInv
<1>8. ASSUME MessageKeyed' PROVE \A e, f \in effects' : e = f
  <2>1. MessageKeyed
    BY <1>8 DEF MessageKeyed
  <2>2. ASSUME NEW d \in Calls, NEW m, request[d] # {} PROVE WorkOf(d, m) = {{"message"}}
    <3>1. \A r \in request[d] : r.key = {"message"}
      BY <2>1, OneKey
    <3> QED BY <2>2, <3>1 DEF WorkOf
  <2>3. \A e \in effects : WorkOf(e[1], e[2]) = WorkOf(c, n)
    BY <1>2, <2>2 DEF EffectsInv
  <2> QED BY <1>3, <2>1, <2>3 DEF EffectsInv
<1> QED BY <1>4, <1>5, <1>6, <1>7, <1>8 DEF EffectsInv

LEMMA WorkStep == WorkInv /\ [OutboundNext]_allVars => WorkInv'
<1> SUFFICES ASSUME WorkInv, [OutboundNext]_allVars PROVE WorkInv'
  OBVIOUS
<1>0. UNCHANGED <<bound, options, plan, drafts>>
  BY Decided
<1>1. ASSUME UNCHANGED outboundVars PROVE WorkInv'
  BY <1>0, <1>1, DeclaredStays DEF outboundVars, WorkInv, ExchangeTypes, Licensed, EffectsInv, MessageKeyed
<1>2. ASSUME NEW c \in bound,
             Exchange(c) \/ AttemptTimesOut(c) \/ AttemptIsRefused(c) \/ AttemptSucceeds(c)
      PROVE  WorkInv'
  <2>0. c \in Calls
    BY DEF WorkInv, DeclaredInv
  <2>1. /\ ExchangeTypes' /\ Licensed(c)' /\ ExchangeFrame(c) /\ effects' = effects
        /\ attempts'[c] >= attempts[c] /\ (request[c] # {} => request'[c] # {})
    BY <1>0, <1>2, <2>0, ExchangeKeeps
  <2>2. \A d \in Calls \ {c} : Licensed(d)'
    BY <1>0, <2>1 DEF WorkInv, ExchangeFrame, Licensed
  <2>3. DeclaredInv'
    BY <1>0, DeclaredStays DEF WorkInv
  <2>4. EffectsInv'
    BY <1>0, <2>0, <2>1 DEF WorkInv, EffectsInv, MessageKeyed, ExchangeFrame, ExchangeTypes
  <2> QED BY <2>1, <2>2, <2>3, <2>4 DEF WorkInv
<1>3. ASSUME NEW c \in bound, Arrive(c) PROVE WorkInv'
  BY <1>0, <1>3, ArriveKeeps DEF WorkInv, DeclaredInv
<1> QED BY <1>1, <1>2, <1>3 DEF OutboundNext, allVars

LEMMA AtMostOne ==
  ASSUME NEW S, \A x, y \in S : x = y
  PROVE  Cardinality(S) <= 1
<1>1. CASE S = {}
  BY <1>1, FS_EmptySet
<1>2. CASE \E x : S = {x}
  BY <1>2, FS_Singleton
<1> QED BY <1>1, <1>2

LEMMA WorkLicensed == WorkInv => EffectsAreLicensed
<1> SUFFICES ASSUME WorkInv PROVE EffectsAreLicensed
  OBVIOUS
<1>1. MessageKeyed => Cardinality(effects) <= 1
  BY AtMostOne DEF WorkInv, EffectsInv
<1>2. ASSUME NEW c \in bound, NEW r \in request[c], r.key = {}, r.method \notin SafeMethods,
             \A policy \in plan.retry : r.method \notin policy.methods
      PROVE  Cardinality({e \in effects : e[1] = c}) <= 1
  <2>1. c \in Calls /\ attempts[c] <= 1 /\ attempts[c] \in Nat
    BY <1>2 DEF WorkInv, DeclaredInv, ExchangeTypes, Licensed, Repeatable
  <2>2. \A e \in {e \in effects : e[1] = c} : e = <<c, 1>>
    BY <2>1 DEF WorkInv, EffectsInv, ExchangeTypes
  <2> QED BY <2>2, AtMostOne
<1> QED BY <1>1, <1>2 DEF EffectsAreLicensed

\* The work of a message is done as often as the declarations license: once by default whatever is
\* lost, late or retried, once per call without a key unless the method may be repeated
\* (isRetryableRequest, resolveOutboundIdempotency, buildOutboundRequest), for every binding,
\* defaults, target resolver and retry policy.
THEOREM WorkIsLicensed == OutboundSpec => []EffectsAreLicensed
  BY InitWork, WorkStep, WorkLicensed, PTL DEF OutboundSpec
=============================================================================
