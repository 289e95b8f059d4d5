---------------------------- MODULE FlowEndpoint ----------------------------
(***************************************************************************)
(* Deliveries with one idempotency key, from the broker to their work: the *)
(* RabbitMQ listener (src/inbound/inbound.explorer.ts), the flow it feeds  *)
(* (src/flow/flow-executor.ts) with one jump step                          *)
(* (src/flow/steps/jump.step.ts), and the service activators the jump      *)
(* calls (src/activator/activator-wrapper.ts).  The flow and every         *)
(* activator keep the key under a scope of their own in                    *)
(* MemoryIdempotencyStore, which a crash of the process empties; the       *)
(* broker then delivers again whatever was not acknowledged.               *)
(*                                                                         *)
(* A step is the code between two awaits.  The wait of a jump is that of   *)
(* RequestReply, whose timer is armed exactly while the wait is pending.   *)
(* Error reports are left out.                                             *)
(***************************************************************************)
EXTENDS Naturals

CONSTANTS
  Deliveries,   \* messages of the queue, all with the same idempotency key
  Targets,      \* channels, each with one activator
  Flow,         \* the scope of the flow's own key
  Nobody,
  Refusable,    \* bound: the targets whose hop may be refused
  Plans         \* the jumps considered: one of them is chosen at the start

\* A jump and its targets `to`: `queued` ones are behind a queue, whose send resolves once the
\* message is accepted, the others on a direct channel, whose send awaits the activator;
\* `forgotten` ones have wait: false; the methods of `void` ones return undefined.
\* `upsets` bounds how often the TTL of a key passes or the process dies.
Plan == [to : SUBSET Targets, queued : SUBSET Targets, forgotten : SUBSET Targets,
         void : SUBSET Targets, upsets : Nat]

ASSUME EndpointAssumption ==
  /\ Flow \notin Targets /\ Nobody \notin Deliveries
  /\ Deliveries \cap {"pending", "timeout", "cancelled"} = {}
  /\ \A p \in Plans : p \in Plan
  /\ Refusable \subseteq Targets

VARIABLES
  plan,       \* the jump of the flow
  broker,     \* per delivery: what the broker knows of it
  flow,       \* per delivery: where its FlowExecutor.execute is
  jump,       \* per jump: where its runJump is
  open,       \* per jump: its reply channel: "closed", "listening", or "deaf" (no handler)
  wait,       \* per jump: its one-shot wait; a reply is the delivery whose run it came from
  act,        \* per jump: the activator invocation its hop caused
  entry,      \* the store, per scope
  upsets,     \* keys that expired and crashes so far
  started,    \* per target: methods started since its key was last free
  worked,     \* per target: the deliveries for which its method has finished, in this process
  done        \* the deliveries whose flow has ever completed

vars == <<plan, broker, flow, jump, open, wait, act, entry, upsets, started, worked, done>>

process == <<flow, jump, open, wait, act, entry>>
history == <<started, worked, done>>
fixed == <<plan, upsets>>

Scopes == {Flow} \cup Targets
Jumps == Deliveries \X Targets
Awaited == plan.to \ plan.forgotten
JumpsOf(d) == {d} \X plan.to

Pending == "pending"
TimedOut == "timeout"
Cancelled == "cancelled"

EntryType == [status : {"absent", "in-flight", "completed", "failed"}, live : BOOLEAN,
              result : Deliveries \cup {Nobody}]
Absent == [status |-> "absent", live |-> FALSE, result |-> Nobody]

-----------------------------------------------------------------------------
Init ==
  /\ plan \in Plans
  /\ broker = [d \in Deliveries |-> "queued"]
  /\ flow = [d \in Deliveries |-> "none"]
  /\ jump = [j \in Jumps |-> "none"]
  /\ open = [j \in Jumps |-> "closed"]
  /\ wait = [j \in Jumps |-> Pending]
  /\ act = [j \in Jumps |-> "none"]
  /\ entry = [s \in Scopes |-> Absent]
  /\ upsets = 0
  /\ started = [t \in Targets |-> 0]
  /\ worked = [t \in Targets |-> {}]
  /\ done = {}

-----------------------------------------------------------------------------
(* MemoryIdempotencyStore, for the key under a scope. *)

\* begin() acquires a key that has no entry or an expired one.
Free(s) == ~entry[s].live
Begun(s) == entry' = [entry EXCEPT ![s] = [status |-> "in-flight", live |-> TRUE, result |-> Nobody]]

Completed(s, result) ==
  entry' = IF entry[s].status = "absent" THEN entry
           ELSE [entry EXCEPT ![s].status = "completed", ![s].result = result]

\* Faulty: the entry is written anew.
FailedAnew(s) ==
  entry' = IF entry[s].status = "absent" THEN entry
           ELSE [entry EXCEPT ![s].status = "failed", ![s].result = Nobody]
\* fail() leaves the result of an entry that was completed.
Failed(s) ==
  entry' = IF entry[s].status = "absent" THEN entry ELSE [entry EXCEPT ![s].status = "failed"]

\* The TTL of a key passes, whoever still works under it.
Expire(s) ==
  /\ upsets < plan.upsets /\ entry[s].live
  /\ upsets' = upsets + 1
  /\ entry' = [entry EXCEPT ![s].live = FALSE]
  /\ started' = [t \in Targets |-> IF t = s THEN 0 ELSE started[t]]
  /\ UNCHANGED <<plan, broker, flow, jump, open, wait, act, worked, done>>

-----------------------------------------------------------------------------
(* The listener. *)

\* Faulty: the message is acknowledged when it arrives.
ReceiveAcking(d) ==
  /\ broker[d] = "queued"
  /\ broker' = [broker EXCEPT ![d] = "acked"]
  /\ flow' = [flow EXCEPT ![d] = "begin"]
  /\ UNCHANGED <<jump, open, wait, act, entry, fixed, history>>

Receive(d) ==
  /\ broker[d] = "queued"
  /\ broker' = [broker EXCEPT ![d] = "delivered"]
  /\ flow' = [flow EXCEPT ![d] = "begin"]
  /\ UNCHANGED <<jump, open, wait, act, entry, fixed, history>>

\* It cannot be parsed, or nobody takes it: it is refused without requeue.
Poison(d) ==
  /\ broker[d] = "queued"
  /\ broker' = [broker EXCEPT ![d] = "nacked"]
  /\ UNCHANGED <<process, fixed, history>>

\* The send resolved: the flow completed, or was a duplicate.
Ack(d) ==
  /\ broker[d] = "delivered" /\ flow[d] \in {"ok", "duplicate"}
  /\ broker' = [broker EXCEPT ![d] = "acked"]
  /\ UNCHANGED <<process, fixed, history>>

Nack(d) ==
  /\ broker[d] = "delivered" /\ flow[d] = "bad"
  /\ broker' = [broker EXCEPT ![d] = "nacked"]
  /\ UNCHANGED <<process, fixed, history>>

\* The process dies and comes back: what it held in memory is gone, and what was delivered and
\* not acknowledged is in the queue again.
Crash ==
  /\ upsets < plan.upsets
  /\ upsets' = upsets + 1
  /\ broker' = [d \in Deliveries |-> IF broker[d] = "delivered" THEN "queued" ELSE broker[d]]
  /\ flow' = [d \in Deliveries |-> "none"]
  /\ jump' = [j \in Jumps |-> "none"]
  /\ open' = [j \in Jumps |-> "closed"]
  /\ wait' = [j \in Jumps |-> Pending]
  /\ act' = [j \in Jumps |-> "none"]
  /\ entry' = [s \in Scopes |-> Absent]
  /\ started' = [t \in Targets |-> 0]
  /\ worked' = [t \in Targets |-> {}]
  /\ UNCHANGED <<plan, done>>

-----------------------------------------------------------------------------
(* FlowExecutor.execute. *)

FlowGoes(d, label) == flow' = [flow EXCEPT ![d] = label]

FlowBegin(d) ==
  /\ flow[d] = "begin"
  /\ IF Free(Flow) THEN Begun(Flow) /\ FlowGoes(d, "steps")
     ELSE FlowGoes(d, "duplicate") /\ UNCHANGED entry
  /\ UNCHANGED <<broker, jump, open, wait, act, fixed, history>>

\* The steps before the jump: one of them stops the flow, or throws.
StepsEnd(d) ==
  /\ flow[d] = "steps"
  /\ \E label \in {"completing", "failing"} : FlowGoes(d, label)
  /\ UNCHANGED <<broker, jump, open, wait, act, entry, fixed, history>>

\* Faulty: the send of a queue awaits the handler.
HopAwaited(t, refused) == FALSE
\* A queue takes its hop at once.
HopTaken(t, refused) == t \in plan.queued \ refused

\* Every target gets its reply channel, its wait and its hop before anything is awaited; some of
\* the hops are refused: no such channel, nobody subscribed, a full queue.
JumpTo(d) ==
  /\ flow[d] = "steps"
  /\ FlowGoes(d, "jumping")
  /\ open' = [j \in Jumps |-> IF j \in JumpsOf(d) THEN "listening" ELSE open[j]]
  /\ \E refused \in SUBSET Refusable :
       /\ act' = [j \in Jumps |-> IF j \notin JumpsOf(d) THEN act[j]
                                  ELSE IF j[2] \in refused THEN "refused" ELSE "begin"]
       /\ jump' = [j \in Jumps |-> IF j \notin JumpsOf(d) THEN jump[j]
                                   ELSE IF HopTaken(j[2], refused) THEN "waiting" ELSE "sending"]
  /\ UNCHANGED <<broker, wait, entry, fixed, history>>

\* Promise.all resolves once every awaited jump has its reply; the steps after the jump run, and
\* one of them may throw.
JumpsEnd(d) ==
  /\ flow[d] = "jumping" /\ \A t \in Awaited : jump[<<d, t>>] = "replied"
  /\ \E label \in {"completing", "failing"} : FlowGoes(d, label)
  /\ UNCHANGED <<broker, jump, open, wait, act, entry, fixed, history>>

\* It rejects with the first awaited jump that fails; the others go on.
JumpsFail(d) ==
  /\ flow[d] = "jumping" /\ \E t \in Awaited : jump[<<d, t>>] = "failed"
  /\ FlowGoes(d, "failing")
  /\ UNCHANGED <<broker, jump, open, wait, act, entry, fixed, history>>

FlowComplete(d) ==
  /\ flow[d] = "completing"
  /\ Completed(Flow, Nobody)
  /\ FlowGoes(d, "ok")
  /\ done' = done \cup {d}
  /\ UNCHANGED <<broker, jump, open, wait, act, fixed, started, worked>>

FlowFail(d) ==
  /\ flow[d] = "failing"
  /\ Failed(Flow)
  /\ FlowGoes(d, "bad")
  /\ UNCHANGED <<broker, jump, open, wait, act, fixed, history>>

-----------------------------------------------------------------------------
(* JumpStep.runJump. *)

\* The finally block: what the jump came to, and its wait and reply channel released.
JumpLeaves(j, how) ==
  /\ jump' = [jump EXCEPT ![j] = how]
  /\ wait' = [wait EXCEPT ![j] = IF @ = Pending THEN Cancelled ELSE @]
  /\ open' = [open EXCEPT ![j] = "closed"]

JumpTimer(j) ==
  /\ open[j] = "listening" /\ wait[j] = Pending
  /\ wait' = [wait EXCEPT ![j] = TimedOut]
  /\ open' = [open EXCEPT ![j] = "deaf"]
  /\ UNCHANGED <<broker, flow, jump, act, entry, fixed, history>>

\* The hop is sent: the activator on the direct channel returned.
JumpSent(j) ==
  /\ jump[j] = "sending"
  /\ act[j] = "returned"
  /\ jump' = [jump EXCEPT ![j] = "waiting"]
  /\ UNCHANGED <<broker, flow, open, wait, act, entry, fixed, history>>

\* The hop is refused, or the activator it awaits threw.
JumpRejects(j) ==
  /\ jump[j] = "sending"
  /\ act[j] \in {"refused", "threw"}
  /\ JumpLeaves(j, "failed")
  /\ UNCHANGED <<broker, flow, act, entry, fixed, history>>

\* await wait.promise.
JumpReceives(j) ==
  /\ jump[j] = "waiting" /\ wait[j] # Pending
  /\ JumpLeaves(j, IF wait[j] \in Deliveries THEN "replied" ELSE "failed")
  /\ UNCHANGED <<broker, flow, act, entry, fixed, history>>

-----------------------------------------------------------------------------
(* invokeActivator: at once on a direct channel, whenever its turn comes behind a queue. *)

ActGoes(j, label) == act' = [act EXCEPT ![j] = label]

ActBegin(j) ==
  /\ act[j] = "begin"
  /\ IF Free(j[2])
     THEN /\ Begun(j[2])
          /\ ActGoes(j, "method")
          /\ started' = [started EXCEPT ![j[2]] = @ + 1]
     ELSE ActGoes(j, "resend") /\ UNCHANGED <<entry, started>>
  /\ UNCHANGED <<broker, flow, jump, open, wait, fixed, worked, done>>

\* A reply finds the handler of the wait, or throws.
Replies(j, from, orElse) ==
  IF open[j] = "listening"
  THEN /\ wait' = [wait EXCEPT ![j] = IF @ = Pending THEN from ELSE @]
       /\ ActGoes(j, "returned")
  ELSE ActGoes(j, orElse) /\ UNCHANGED wait

\* Faulty: whoever holds the key answers for it, finished or not.
CachedOrOwner(j) == IF entry[j[2]].live THEN j[1] ELSE Nobody
\* get() returns the result of a live entry, whatever its status.
Cached(j) == IF entry[j[2]].live THEN entry[j[2]].result ELSE Nobody

\* resendCachedResult; get() deletes an expired entry.  Without a result the duplicate is silent;
\* an error of the reply is the caller's, neither recorded under the key nor reported.
ActResend(j) ==
  /\ act[j] = "resend"
  /\ entry' = IF entry[j[2]].live THEN entry ELSE [entry EXCEPT ![j[2]] = Absent]
  /\ IF Cached(j) = Nobody THEN ActGoes(j, "returned") /\ UNCHANGED wait
     ELSE Replies(j, Cached(j), "threw")
  /\ UNCHANGED <<broker, flow, jump, open, fixed, history>>

MethodReturns(j) ==
  /\ act[j] = "method"
  /\ ActGoes(j, "completing")
  /\ worked' = [worked EXCEPT ![j[2]] = @ \cup {j[1]}]
  /\ UNCHANGED <<broker, flow, jump, open, wait, entry, fixed, started, done>>

MethodThrows(j) ==
  /\ act[j] = "method"
  /\ ActGoes(j, "failing")
  /\ UNCHANGED <<broker, flow, jump, open, wait, entry, fixed, history>>

ActComplete(j) ==
  /\ act[j] = "completing"
  /\ IF j[2] \in plan.void THEN Completed(j[2], Nobody) /\ ActGoes(j, "returned")
     ELSE Completed(j[2], j[1]) /\ ActGoes(j, "replying")
  /\ UNCHANGED <<broker, flow, jump, open, wait, fixed, history>>

\* The key is complete before the reply leaves; a reply that finds nobody fails it.
ActReply(j) ==
  /\ act[j] = "replying"
  /\ Replies(j, j[1], "failing")
  /\ UNCHANGED <<broker, flow, jump, open, entry, fixed, history>>

ActFail(j) ==
  /\ act[j] = "failing"
  /\ Failed(j[2])
  /\ ActGoes(j, "threw")
  /\ UNCHANGED <<broker, flow, jump, open, wait, fixed, history>>

-----------------------------------------------------------------------------
Listener(d) == Receive(d) \/ Poison(d) \/ Ack(d) \/ Nack(d)
FlowStep(d) ==
  \/ FlowBegin(d) \/ StepsEnd(d) \/ JumpTo(d) \/ JumpsEnd(d) \/ JumpsFail(d)
  \/ FlowComplete(d) \/ FlowFail(d)
JumpStep(j) == JumpSent(j) \/ JumpRejects(j) \/ JumpReceives(j)
Method(j) == MethodReturns(j) \/ MethodThrows(j)
Activator(j) == ActBegin(j) \/ ActResend(j) \/ ActComplete(j) \/ ActReply(j) \/ ActFail(j)

Settled(d) == broker[d] \in {"acked", "nacked"}
Quiet ==
  /\ \A d \in Deliveries : Settled(d)
  /\ \A j \in Jumps : jump[j] \in {"none", "replied", "failed"}
  /\ UNCHANGED vars

Next ==
  \/ \E d \in Deliveries : Listener(d) \/ FlowStep(d)
  \/ \E j \in Jumps : JumpStep(j) \/ JumpTimer(j) \/ Activator(j) \/ Method(j)
  \/ \E s \in Scopes : Expire(s)
  \/ Crash
  \/ Quiet

Spec == Init /\ [][Next]_vars

\* The event loop runs what is ready and timers fire.  A method behind a direct channel returns or
\* throws: the jump awaits it and nothing else fixed it.  One behind a queue may hang for ever.
FairSpec ==
  /\ Spec
  /\ \A d \in Deliveries : WF_vars(Receive(d) \/ Ack(d) \/ Nack(d)) /\ WF_vars(FlowStep(d))
  /\ \A j \in Jumps : WF_vars(JumpStep(j)) /\ WF_vars(JumpTimer(j)) /\ WF_vars(j[2] \notin plan.queued /\ (Activator(j) \/ Method(j)))
-----------------------------------------------------------------------------
\* Types; a reply channel is open exactly while its jump runs, a deaf one after its timeout.
TypeOK ==
  /\ plan \in Plans
  /\ broker \in [Deliveries -> {"queued", "delivered", "acked", "nacked"}]
  /\ flow \in [Deliveries -> {"none", "begin", "steps", "jumping", "completing", "failing", "ok",
                              "bad", "duplicate"}]
  /\ jump \in [Jumps -> {"none", "sending", "waiting", "replied", "failed"}]
  /\ open \in [Jumps -> {"closed", "listening", "deaf"}]
  /\ wait \in [Jumps -> {Pending, TimedOut, Cancelled} \cup Deliveries]
  /\ act \in [Jumps -> {"none", "refused", "begin", "resend", "method", "completing",
                        "replying", "failing", "returned", "threw"}]
  /\ entry \in [Scopes -> EntryType]
  /\ upsets \in 0 .. plan.upsets
  /\ started \in [Targets -> Nat]
  /\ worked \in [Targets -> SUBSET Deliveries] /\ done \in SUBSET Deliveries
  /\ \A j \in Jumps : jump[j] \in {"sending", "waiting"} <=> open[j] # "closed"
  /\ \A j \in Jumps : open[j] = "deaf" => wait[j] = TimedOut

\* The broker may forget a message only if its work is done or somebody is answerable for it: when
\* a delivery is acknowledged, the flow of this key has completed, or another delivery of it is
\* with the broker, or was refused and dead-lettered.  A duplicate is acknowledged on behalf of
\* the claim that excluded it, and neither a crash, an expired key nor the failure of that claim
\* may leave the key with nobody.
AcknowledgedWorkHasAnOwner ==
  (\E d \in Deliveries : broker[d] = "acked") =>
    done # {} \/ \E d \in Deliveries : broker[d] # "acked"

\* A flow that jumped goes on only with a reply of every awaited target, and each reply is the
\* result of a method that finished: of its own hop, or of the run whose cached result it repeats.
FlowsGoOnWithReplies ==
  \A d \in Deliveries : flow[d] \in {"completing", "ok"} =>
    \A t \in Awaited :
      \/ jump[<<d, t>>] = "none"
      \/ jump[<<d, t>>] = "replied" /\ wait[<<d, t>>] \in worked[t]

\* While a key lives, the method of an activator runs at most once for it, whether that run is in
\* flight, completed, failed, or failed after its completion because its reply was late; and once it
\* has completed the key, its result answers the repeats, a late reply that fails the key included.
OneRunPerClaim ==
  [][\A t \in Targets :
       /\ started'[t] \in 0 .. 1
       /\ entry[t].live /\ entry[t].result # Nobody /\ upsets' = upsets => entry'[t].result # Nobody]_vars

\* Every delivery is acknowledged or refused in the end and every jump releases its reply channel,
\* also one whose flow ended before it (forgotten, or abandoned by Promise.all when a sibling
\* failed), although repeats of a key in flight are silent, methods behind a queue hang and the
\* process may die.
EverythingEnds == <>(\A d \in Deliveries : Settled(d) /\ \A j \in JumpsOf(d) : open[j] = "closed")
=============================================================================
