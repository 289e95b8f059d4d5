---------------------------- MODULE InboundGate ----------------------------
(***************************************************************************)
(* Requests with one storage key at an inbound endpoint: the claim before  *)
(* the dispatch and its settlement (src/inbound/inbound.idempotency.ts),   *)
(* the dispatch itself (src/inbound/inbound.interceptor.ts), the failure   *)
(* policy (src/inbound/inbound.failure.ts) and the entry of the key in     *)
(* MemoryIdempotencyStore (src/idempotency/memory-idempotency.store.ts).   *)
(*                                                                         *)
(* The flow a request dispatches runs on its own: it may reply and go on,  *)
(* end without a reply, or outlive the timeout of the reply gateway.  The  *)
(* TTL of an entry may pass between any two steps.                         *)
(***************************************************************************)
EXTENDS Integers, FiniteSets, TLC, InboundPlan

CONSTANTS
  Requests,      \* they all carry one client key
  Nobody,
  TenantOf,      \* per request: what a key resolver binds the key to
  Endpoints,     \* spec, module and whether the store ever throws: one of them is chosen at the start
  Marks,         \* marks the application may leave on an error ("none": it leaves none)
  Verdicts,      \* what a classifier may answer; "throws": it throws
  MaxTerms       \* bound: how often the TTL of a key passes

Actions == {"keep", "release", "store"}

ASSUME RequestsAssumption == Nobody \notin Requests /\ MaxTerms \in Nat
\* What InboundForwardKey allows.
ASSUME ForwardAssumption ==
  \A e \in Endpoints :
    Get(Merged(e.spec, e.module).options, "forward", "none") \in {"raw", "resolved", "none"}
ASSUME MarksAssumption == Marks \subseteq Actions \cup {"none"} /\ Verdicts \subseteq Actions \cup {"throws"}

VARIABLES
  policy,    \* the plan of the endpoint, and whether its store is reliable
  pc,        \* per request: where its dispatch() is
  entry,     \* per storage key: the store's entry
  handed,    \* the keys that the flow's own scope has claimed
  flow,      \* per request: "none", "running", "ok", "bad" or "dropped" by the flow's own scope
  error,     \* per request: what its dispatch threw
  answer,    \* per request: what the client gets
  terms,     \* how often a TTL has passed
  term,      \* per request: the value of terms when it claimed
  outlived   \* the TTL has passed over a claim that was not settled

vars == <<policy, pc, entry, handed, flow, error, answer, terms, term, outlived>>

Labels == {"begin", "get", "send", "waiting", "succeed", "failed", "store", "release", "fail", "end"}
ErrorKinds == {"none", "business", "unanswered", "bookkeeping"}
NoError == [kind |-> "none", mark |-> "none"]
AnswerKinds == {"none", "own", "threw", "replayed", "storedFailure", "duplicate", "rejected"}
NoAnswer == [kind |-> "none", of |-> Nobody, as |-> "none"]

\* An entry: `what` and `of` say whose reply or failure its result holds, `owner` who claimed it.
Absent == [status |-> "absent", live |-> FALSE, what |-> "none", of |-> Nobody, owner |-> Nobody]

-----------------------------------------------------------------------------
(* MemoryIdempotencyStore: what a call leaves of the entry. *)

Begun(r) ==
  [status |-> "in-flight", live |-> TRUE, what |-> "none", of |-> Nobody, owner |-> r]

Key(r) == IF policy.keyed THEN TenantOf[r] ELSE "client"
Keys == {"client"} \cup {TenantOf[r] : r \in Requests}
Record(r) == entry[Key(r)]

CompletedWith(what, r) ==
  IF Record(r).status = "absent" THEN Record(r)
  ELSE [Record(r) EXCEPT !.status = "completed", !.what = what, !.of = r]

FailedEntry(r) == IF Record(r).status = "absent" THEN Record(r) ELSE [Record(r) EXCEPT !.status = "failed"]

\* A call of the store that would leave `after`: it succeeds, or it throws before or after its effect.
Stores(r, after) == entry' = [entry EXCEPT ![Key(r)] = after]
Throws(r, after) == ~policy.reliable /\ (UNCHANGED entry \/ Stores(r, after))

-----------------------------------------------------------------------------
Init ==
  /\ \E e \in {e \in Endpoints : ~Refused(e.spec, e.module)} :
       policy = Over([reliable |-> e.reliable], Plan(e.spec, e.module))
  /\ pc = [r \in Requests |-> "begin"]
  /\ entry = [k \in Keys |-> Absent]
  /\ handed = {}
  /\ flow = [r \in Requests |-> "none"]
  /\ error = [r \in Requests |-> NoError]
  /\ answer = [r \in Requests |-> NoAnswer]
  /\ terms = [k \in Keys |-> 0]
  /\ term = [r \in Requests |-> 0]
  /\ outlived = {}

Goto(r, label) == pc' = [pc EXCEPT ![r] = label]
Ended(r) == pc[r] = "end"

\* The request is over with this answer.
Answers(r, kind, of, as) ==
  /\ Goto(r, "end")
  /\ answer' = [answer EXCEPT ![r] = [kind |-> kind, of |-> of, as |-> as]]

\* claim: begin() acquires a key that has no entry or an expired one; without rules it is skipped.
Claim(r) ==
  /\ pc[r] = "begin"
  /\ IF policy.claims /\ Record(r).live
     THEN Goto(r, "get") /\ UNCHANGED <<entry, term>>
     ELSE /\ Goto(r, "send")
          /\ IF policy.claims THEN Stores(r, Begun(r)) ELSE UNCHANGED entry
          /\ term' = [term EXCEPT ![r] = terms[Key(r)]]
  /\ UNCHANGED <<handed, flow, error, answer, terms, outlived>>

\* begin() throws: the request is rejected and nothing is dispatched.
ClaimThrows(r) ==
  /\ pc[r] = "begin" /\ policy.claims
  /\ Throws(r, IF Record(r).live THEN Record(r) ELSE Begun(r))
  /\ Answers(r, "threw", Nobody, "none")
  /\ UNCHANGED <<handed, flow, error, terms, term, outlived>>

\* Faulty: a key in flight is answered like a completed one.
RepeatEarly(r) ==
  IF Record(r).live THEN Answers(r, "replayed", Record(r).owner, "none")
  ELSE Answers(r, "duplicate", Nobody, "in-flight")

\* completedRepeat and resolveRepeat, over the record get() returns.
Repeat(r) ==
  LET record == Record(r) IN
  CASE record.live /\ record.status = "completed" /\ record.what = "failure" ->
         Answers(r, "storedFailure", record.of, "none")
    [] record.live /\ record.status = "completed" /\ record.what # "failure" ->
         IF policy.onDuplicate = "replay" THEN Answers(r, "replayed", record.of, "none")
         ELSE Answers(r, "duplicate", record.of, "completed")
    [] record.live /\ record.status = "failed" -> Answers(r, "duplicate", Nobody, "failed")
    [] OTHER ->
         IF policy.onInFlight = "duplicate" THEN Answers(r, "duplicate", Nobody, "in-flight")
         ELSE Answers(r, "rejected", Nobody, "none")

\* get() deletes an expired entry; the record of a live one decides the answer.
GetRecord(r) ==
  /\ pc[r] = "get"
  /\ IF Record(r).live THEN UNCHANGED entry ELSE Stores(r, Absent)
  /\ Repeat(r)
  /\ UNCHANGED <<handed, flow, error, terms, term, outlived>>

-----------------------------------------------------------------------------
(* send: the dispatch, and the flow it starts. *)

\* The flow starts, unless its own scope knows the key it was handed: then it ends without a word.
Dispatch(r) ==
  /\ pc[r] = "send"
  /\ LET keys == Forwarded(policy, "client", Key(r)) IN
     /\ flow' = [flow EXCEPT ![r] = IF keys \cap handed = {} THEN "running" ELSE "dropped"]
     /\ handed' = handed \cup keys
  /\ Goto(r, "waiting")
  /\ UNCHANGED <<entry, error, answer, terms, term, outlived>>

\* The dispatch throws e.
DispatchFails(r, kind, mark) ==
  /\ error' = [error EXCEPT ![r] = [kind |-> kind, mark |-> mark]]
  /\ IF policy.claims THEN Goto(r, "failed") /\ UNCHANGED answer
     ELSE Answers(r, "threw", Nobody, "none")
  /\ UNCHANGED <<entry, handed, terms, term, outlived>>

\* No such channel, a full or closed queue, no subscriber: no flow starts.
NotAccepted(r) ==
  /\ pc[r] = "send"
  /\ \E kind \in {"business", "unanswered"} : DispatchFails(r, kind, "none")
  /\ UNCHANGED flow

FlowEnds(r) ==
  /\ flow[r] = "running"
  /\ \E how \in {"ok", "bad"} : flow' = [flow EXCEPT ![r] = how]
  /\ UNCHANGED <<pc, entry, handed, error, answer, terms, term, outlived>>

\* The reply arrives, or the channel accepted the message; the flow may still have steps to run.
Answered(r) ==
  /\ pc[r] = "waiting"
  /\ flow[r] \in {"running", "ok"} \/ (flow[r] = "dropped" /\ ~policy.requestReply)
  /\ IF policy.claims THEN Goto(r, "succeed") /\ UNCHANGED answer
     ELSE Answers(r, "own", r, "none")
  /\ UNCHANGED <<entry, handed, flow, error, terms, term, outlived>>

\* The error of the flow reaches the awaited send, marked by the application or not; it may itself
\* be the timeout or the missing subscriber of an inner request.
FlowFails(r) ==
  /\ pc[r] = "waiting" /\ flow[r] = "bad"
  /\ \/ \E mark \in Marks : DispatchFails(r, "business", mark)
     \/ DispatchFails(r, "unanswered", "none")
  /\ UNCHANGED flow

\* ReplyTimeoutError: the flow still runs, or it ended or was dropped without a reply.
Unanswered(r) ==
  /\ pc[r] = "waiting" /\ policy.requestReply
  /\ DispatchFails(r, "unanswered", "none")
  /\ UNCHANGED flow

-----------------------------------------------------------------------------
(* succeed and failed: the settlement of the claim. *)

Succeed(r) ==
  /\ pc[r] = "succeed"
  /\ Stores(r, CompletedWith("reply", r))
  /\ Answers(r, "own", r, "none")
  /\ UNCHANGED <<handed, flow, error, terms, term, outlived>>

\* complete() throws: the key is failed, which keeps it blocked, and the error goes to the client.
SucceedThrows(r) ==
  /\ pc[r] = "succeed"
  /\ Throws(r, CompletedWith("reply", r))
  /\ error' = [error EXCEPT ![r] = [kind |-> "bookkeeping", mark |-> "none"]]
  /\ Goto(r, "fail")
  /\ UNCHANGED <<handed, flow, answer, terms, term, outlived>>

\* Faulty: the static action applies to every error.
DecisionsOnAnyError(r) ==
  CASE policy.onFailure = "keep" -> {"keep"}
    [] policy.onFailure # "keep" /\ error[r].mark # "none" -> {error[r].mark}
    [] policy.onFailure = "marker" /\ error[r].mark = "none" -> {"keep"}
    [] policy.onFailure = "static" /\ error[r].mark = "none" -> {policy.static}
    [] policy.onFailure = "classifier" /\ error[r].mark = "none" -> Verdicts

\* decideFailureAction.
Decisions(r) ==
  CASE policy.onFailure = "keep" -> {"keep"}
    [] policy.onFailure # "keep" /\ error[r].mark # "none" -> {error[r].mark}
    [] policy.onFailure = "marker" /\ error[r].mark = "none" -> {"keep"}
    [] policy.onFailure = "static" /\ error[r].mark = "none" ->
         {IF error[r].kind = "unanswered" THEN "keep" ELSE policy.static}
    [] policy.onFailure = "classifier" /\ error[r].mark = "none" -> Verdicts

\* Faulty: without release() the claim is left as it is.
NextCallOrNone(r, action) ==
  IF action = "release" /\ ~policy.canRelease THEN Answers(r, "threw", Nobody, "none")
  ELSE UNCHANGED answer /\ Goto(r, IF action \in {"store", "release"} THEN action ELSE "fail")

\* settle: which call of the store the action asks for; without release() it is kept.
NextCall(r, action) ==
  /\ Goto(r, CASE action = "store" -> "store"
               [] action = "release" /\ policy.canRelease -> "release"
               [] OTHER -> "fail")
  /\ UNCHANGED answer

Settle(r) ==
  /\ pc[r] = "failed"
  /\ \E action \in Decisions(r) : NextCall(r, action)
  /\ UNCHANGED <<entry, handed, flow, error, terms, term, outlived>>

StoreFailure(r) ==
  /\ pc[r] = "store"
  /\ Stores(r, CompletedWith("failure", r))
  /\ Answers(r, "threw", Nobody, "none")
  /\ UNCHANGED <<handed, flow, error, terms, term, outlived>>

ReleaseKey(r) ==
  /\ pc[r] = "release"
  /\ Stores(r, Absent)
  /\ Answers(r, "threw", Nobody, "none")
  /\ UNCHANGED <<handed, flow, error, terms, term, outlived>>

\* A policy error, here of the store, degrades to keep.
SettleThrows(r) ==
  /\ \/ pc[r] = "store" /\ Throws(r, CompletedWith("failure", r))
     \/ pc[r] = "release" /\ Throws(r, Absent)
  /\ Goto(r, "fail")
  /\ UNCHANGED <<handed, flow, error, answer, terms, term, outlived>>

\* fail(), whose own error is swallowed.
Fail(r) ==
  /\ pc[r] = "fail"
  /\ Stores(r, FailedEntry(r)) \/ Throws(r, FailedEntry(r))
  /\ Answers(r, "threw", Nobody, "none")
  /\ UNCHANGED <<handed, flow, error, terms, term, outlived>>

-----------------------------------------------------------------------------
(* Time. *)

\* r has claimed the entry of a key and has not settled it yet.
Unsettled(r, k) == entry[k].owner = r /\ ~Ended(r)

Expire(k) ==
  /\ entry[k].live /\ terms[k] < MaxTerms
  /\ entry' = [entry EXCEPT ![k].live = FALSE]
  /\ terms' = [terms EXCEPT ![k] = @ + 1]
  /\ outlived' = outlived \cup {l \in {k} : \E r \in Requests : Unsettled(r, k)}
  /\ UNCHANGED <<pc, handed, flow, error, answer, term>>

PurgeExpired ==
  /\ \E k \in Keys : entry[k].status # "absent" /\ ~entry[k].live
  /\ entry' = [k \in Keys |-> IF entry[k].live THEN entry[k] ELSE Absent]
  /\ UNCHANGED <<pc, handed, flow, error, answer, terms, term, outlived>>

Step(r) ==
  \/ Claim(r) \/ ClaimThrows(r) \/ GetRecord(r)
  \/ Dispatch(r) \/ NotAccepted(r) \/ Answered(r) \/ FlowFails(r) \/ Unanswered(r)
  \/ Succeed(r) \/ SucceedThrows(r)
  \/ Settle(r) \/ StoreFailure(r) \/ ReleaseKey(r) \/ SettleThrows(r) \/ Fail(r)

AllEnded == (\A r \in Requests : Ended(r) /\ flow[r] # "running") /\ UNCHANGED vars

Next ==
  /\ \/ \E r \in Requests : Step(r) \/ FlowEnds(r)
     \/ (\E k \in Keys : Expire(k)) \/ PurgeExpired \/ AllEnded
  /\ UNCHANGED policy

Spec == Init /\ [][Next]_vars
-----------------------------------------------------------------------------
\* Types; an entry exists only because a request claimed it: complete() and fail() create none.
TypeOK ==
  /\ pc \in [Requests -> Labels]
  /\ entry \in [Keys -> [status : {"absent", "in-flight", "completed", "failed"}, live : BOOLEAN,
                         what : {"none", "reply", "failure"}, of : Requests \cup {Nobody},
                         owner : Requests \cup {Nobody}]]
  /\ handed \subseteq Keys
  /\ flow \in [Requests -> {"none", "running", "ok", "bad", "dropped"}]
  /\ error \in [Requests -> [kind : ErrorKinds, mark : Actions \cup {"none"}]]
  /\ answer \in [Requests -> [kind : AnswerKinds, of : Requests \cup {Nobody},
                              as : {"none", "in-flight", "completed", "failed"}]]
  /\ terms \in [Keys -> 0 .. MaxTerms]
  /\ term \in [Requests -> 0 .. MaxTerms]
  /\ outlived \subseteq Keys
  /\ \A k \in Keys : entry[k].status = "absent" <=> entry[k].owner = Nobody

\* The flow of r does the key's work or has done it.
Works(r) == flow[r] \in {"running", "ok"}

\* Two requests with one storage key.
Same(r, q) == r # q /\ Key(r) = Key(q)

\* Within one TTL the work of a key is done at most once and never twice at the same time, as long
\* as no dispatch outlives its TTL and no classifier releases unanswered work: a repeat runs for real
\* only when the flow before it has failed.  A failing complete(), a lost answer of the store and an
\* unanswered request keep the key blocked ("a failing `complete` keeps the key blocked, never
\* releases it"; "A static value never applies to a reply timeout or a missing subscriber: the flow
\* may still be running").  An endpoint without a claim leaves it to the flow's scope.
WorkOncePerTtl ==
  policy.onFailure # "classifier" =>
    \A r, q \in Requests :
      Same(r, q) /\ Works(r) /\ Works(q) =>
        IF policy.claims THEN Key(r) \in outlived \/ term[r] # term[q]
        ELSE policy.forward = "none"

\* The dispatch of q resolved: its flow replied, or its message was accepted.
Resolved(q) ==
  pc[q] = "succeed" \/ answer[q].kind = "own" \/ error[q].kind = "bookkeeping"

\* What a repeat is told happened, did: what is replayed, the reply or the id of the accepted
\* message, is that of a request of the same key whose dispatch resolved; a stored failure is
\* rethrown only for a dispatch that failed; "completed" and "failed" name a request that was,
\* although late calls may hit the claim of a later request.
RepeatsAreTrue ==
  \A r \in Requests :
    LET first == answer[r].of IN
    /\ answer[r].kind = "replayed" \/ answer[r].as = "completed" => Resolved(first) /\ Same(r, first)
    /\ answer[r].kind = "storedFailure" =>
         Same(r, first) /\ error[first].kind \in {"business", "unanswered"} /\ ~Resolved(first)
    /\ answer[r].as = "failed" => \E q \in Requests : Same(r, q) /\ error[q].kind # "none"

\* With a store that works, no request leaves its claim in flight: whoever claimed has completed,
\* failed or released the key when it ends, whatever the policy decides, cannot do or throws.
ClaimsAreSettled ==
  \A k \in Keys : policy.reliable /\ entry[k].status = "in-flight" => ~Ended(entry[k].owner)

\* Does not ask to pass the client key on "regardless", against what an endpoint forwards by itself,
\* and has the idempotency service that the module always provides.
ForwardsByDefault(e) ==
  LET merged == Merged(e.spec, e.module)
      forward == Get(merged.options, "forward", "none")
  IN e.module.service # {} /\ (forward = "none" \/ (forward = "resolved" /\ merged.enabled))

\* The key a message is handed never silences it: the flow's own scope drops a request only for one
\* of the same storage key, and only when the endpoint answered that one in an earlier TTL, or has no
\* claim and awaits no reply ("two tenants block each other at the flow scope", "a key released at
\* the inbound scope but still claimed by the flow would turn the retry into a silent flow duplicate").
HandedKeysNeverSilence ==
  \A r \in Requests :
    flow[r] = "dropped" =>
      \E q \in Requests : Same(r, q) /\ flow[q] # "none"
                          /\ (IF policy.claims THEN term[q] # term[r] ELSE ~policy.requestReply)
=============================================================================
