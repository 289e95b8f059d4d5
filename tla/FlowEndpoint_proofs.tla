------------------------ MODULE FlowEndpoint_proofs ------------------------
(***************************************************************************)
(* Theorems about deliveries with one key on their way through a flow and  *)
(* its activators: a method runs once per claim, a flow goes on only with  *)
(* genuine replies, and no acknowledged key is left with nobody.           *)
(***************************************************************************)
EXTENDS FlowEndpoint, TLAPS

-----------------------------------------------------------------------------
(* The inductive invariant. *)

\* What a wait, an invocation and a flow know of a jump.
JumpKnows(j) ==
  /\ wait[j] \in Deliveries => wait[j] \in worked[j[2]]
  /\ jump[j] = "replied" => wait[j] \in Deliveries
  /\ act[j] \in {"completing", "replying"} => j[1] \in worked[j[2]]
  /\ flow[j[1]] \in {"none", "begin", "steps", "duplicate"} => jump[j] = "none"
  /\ flow[j[1]] \in {"completing", "ok"} /\ j[2] \in Awaited => jump[j] \in {"none", "replied"}

\* A key without a live entry has started nothing; a result is that of finished work.
KeyKnows(t) ==
  /\ started[t] \in 0 .. 1
  /\ ~entry[t].live => started[t] = 0
  /\ entry[t].result # Nobody => entry[t].result \in worked[t] /\ t \notin plan.void

\* What the broker and the history know of a flow.
FlowKnown(d) ==
  /\ broker[d] = "queued" => flow[d] = "none"
  /\ broker[d] = "acked" => flow[d] \in {"none", "ok", "duplicate"}
  /\ flow[d] = "ok" => d \in done

\* The live claim of the flow's key is some delivery's.
Owning == {"steps", "jumping", "completing", "failing", "ok", "bad"}
ClaimHasOwner == entry[Flow].live => \E d \in Deliveries : flow[d] \in Owning

\* Whoever was acknowledged or will be as a duplicate has somebody else to answer for the key.
Covered ==
  (\E d \in Deliveries : flow[d] = "duplicate" \/ broker[d] = "acked") =>
    done # {} \/ \E d \in Deliveries : broker[d] # "acked" /\ flow[d] # "duplicate"

EndpointInv ==
  /\ \A j \in Jumps : JumpKnows(j)
  /\ \A t \in Targets : KeyKnows(t)
  /\ \A d \in Deliveries : FlowKnown(d)
  /\ ClaimHasOwner
  /\ Covered

LEMMA PlanFacts ==
  ASSUME plan \in Plans
  PROVE  /\ plan.to \subseteq Targets /\ plan.void \subseteq Targets /\ plan.upsets \in Nat
         /\ Awaited \subseteq Targets /\ \A d \in Deliveries : JumpsOf(d) \subseteq Jumps
  BY EndpointAssumption DEF Plan, Awaited, JumpsOf, Jumps

LEMMA Names ==
  /\ Pending \notin Deliveries /\ TimedOut \notin Deliveries /\ Cancelled \notin Deliveries
  /\ Pending # TimedOut /\ Pending # Cancelled /\ TimedOut # Cancelled
  /\ Nobody \notin Deliveries /\ Flow \notin Targets /\ Flow \in Scopes /\ Targets \subseteq Scopes
  BY EndpointAssumption DEF Pending, TimedOut, Cancelled, Scopes

LEMMA InitEndpoint == Init => TypeOK /\ EndpointInv
<1> SUFFICES ASSUME Init PROVE TypeOK /\ EndpointInv
  OBVIOUS
<1>1. TypeOK
  BY PlanFacts, Names DEF Init, TypeOK, Absent, EntryType, Scopes
<1>2. ASSUME NEW j \in Jumps PROVE JumpKnows(j)
  BY <1>2, Names DEF Init, JumpKnows, Jumps
<1>3. ASSUME NEW t \in Targets PROVE KeyKnows(t)
  BY <1>3, Names DEF Init, KeyKnows, Absent
<1>4. \A d \in Deliveries : FlowKnown(d)
  BY DEF Init, FlowKnown
<1>5. ClaimHasOwner /\ Covered
  BY Names DEF Init, ClaimHasOwner, Covered, Absent
<1> QED BY <1>1, <1>2, <1>3, <1>4, <1>5 DEF EndpointInv

-----------------------------------------------------------------------------
(* The store. *)

\* A write under one scope; `e` is the entry it leaves there.
Writes(s, e) == entry' = [entry EXCEPT ![s] = e] /\ e \in EntryType

LEMMA WriteFacts ==
  ASSUME entry \in [Scopes -> EntryType], NEW s \in Scopes, NEW e, Writes(s, e)
  PROVE  /\ entry' \in [Scopes -> EntryType] /\ entry'[s] = e
         /\ \A x \in Scopes : x # s => entry'[x] = entry[x]
  BY DEF Writes

LEMMA BegunWrites ==
  ASSUME NEW s \in Scopes, Begun(s)
  PROVE  \E e : Writes(s, e) /\ e.live /\ e.result = Nobody
<1> DEFINE e == [status |-> "in-flight", live |-> TRUE, result |-> Nobody]
<1>1. Writes(s, e)
  BY DEF Begun, Writes, EntryType
<1> QED BY <1>1

LEMMA CompletedWrites ==
  ASSUME entry \in [Scopes -> EntryType], NEW s \in Scopes, NEW result \in Deliveries \cup {Nobody},
         Completed(s, result)
  PROVE  \E e : Writes(s, e) /\ e.live = entry[s].live /\ e.result \in {entry[s].result, result}
<1>1. CASE entry[s].status = "absent"
  <2>1. Writes(s, entry[s])
    BY <1>1 DEF Completed, Writes
  <2> QED BY <2>1
<1>2. CASE entry[s].status # "absent"
  <2> DEFINE e == [[entry[s] EXCEPT !.status = "completed"] EXCEPT !.result = result]
  <2>1. entry[s] \in EntryType
    OBVIOUS
  <2>2. e.live = entry[s].live /\ e.result = result
    BY <2>1 DEF EntryType
  <2>3. e \in EntryType
    BY <2>1 DEF EntryType
  <2>4. entry' = [entry EXCEPT ![s] = e]
    BY <1>2 DEF Completed
  <2>5. Writes(s, e)
    BY <2>3, <2>4 DEF Writes
  <2> QED BY <2>2, <2>5
<1> QED BY <1>1, <1>2

LEMMA FailedWrites ==
  ASSUME entry \in [Scopes -> EntryType], NEW s \in Scopes, Failed(s)
  PROVE  \E e : Writes(s, e) /\ e.live = entry[s].live /\ e.result = entry[s].result
<1>1. CASE entry[s].status = "absent"
  <2>1. Writes(s, entry[s])
    BY <1>1 DEF Failed, Writes
  <2> QED BY <2>1
<1>2. CASE entry[s].status # "absent"
  <2> DEFINE e == [status |-> "failed", live |-> entry[s].live, result |-> entry[s].result]
  <2>1. entry[s] \in EntryType
    OBVIOUS
  <2>2. e = [entry[s] EXCEPT !.status = "failed"]
    BY <2>1 DEF EntryType
  <2>3. e \in EntryType
    BY <2>1 DEF EntryType
  <2>4. entry' = [entry EXCEPT ![s] = e]
    BY <1>2, <2>2 DEF Failed
  <2>5. Writes(s, e)
    BY <2>3, <2>4 DEF Writes
  <2> QED BY <2>5
<1> QED BY <1>1, <1>2

LEMMA ExpireWrites ==
  ASSUME entry \in [Scopes -> EntryType], NEW s \in Scopes, Expire(s)
  PROVE  \E e : Writes(s, e) /\ ~e.live /\ e.result = entry[s].result
<1> DEFINE e == [entry[s] EXCEPT !.live = FALSE]
<1>1. entry[s] \in EntryType
  OBVIOUS
<1>2. ~e.live /\ e.result = entry[s].result
  BY <1>1 DEF EntryType
<1>3. e \in EntryType
  BY <1>1 DEF EntryType
<1>4. entry' = [entry EXCEPT ![s] = e]
  BY DEF Expire
<1>5. Writes(s, e)
  BY <1>3, <1>4 DEF Writes
<1> QED BY <1>2, <1>5

LEMMA ResendWrites ==
  ASSUME entry \in [Scopes -> EntryType], NEW j \in Jumps, j[2] \in Scopes, ActResend(j)
  PROVE  \/ entry' = entry
         \/ ~entry[j[2]].live /\ Writes(j[2], Absent) /\ ~Absent.live /\ Absent.result = Nobody
<1>1. Absent \in EntryType /\ ~Absent.live /\ Absent.result = Nobody
  BY DEF Absent, EntryType
<1> QED BY <1>1 DEF ActResend, Writes

-----------------------------------------------------------------------------
(* Every step keeps the types. *)

LEMMA TypeStep == TypeOK /\ Next => TypeOK'
<1> SUFFICES ASSUME TypeOK, Next PROVE TypeOK'
  OBVIOUS
<1>0. plan \in Plans /\ entry \in [Scopes -> EntryType]
  BY DEF TypeOK
<1> USE PlanFacts, Names, <1>0 DEF TypeOK, process, history, fixed, Jumps
<1>1. CASE \E d \in Deliveries : Receive(d)
  BY <1>1 DEF Receive
<1>2. CASE \E d \in Deliveries : Poison(d)
  BY <1>2 DEF Poison
<1>3. CASE \E d \in Deliveries : Ack(d)
  BY <1>3 DEF Ack
<1>4. CASE \E d \in Deliveries : Nack(d)
  BY <1>4 DEF Nack
<1>5. CASE \E d \in Deliveries : FlowBegin(d)
  <2>1. PICK d \in Deliveries : FlowBegin(d)
    BY <1>5
  <2>2. entry' \in [Scopes -> EntryType]
    BY <2>1, BegunWrites, WriteFacts DEF FlowBegin
  <2> QED BY <2>1, <2>2 DEF FlowBegin, FlowGoes
<1>6. CASE \E d \in Deliveries : StepsEnd(d)
  BY <1>6 DEF StepsEnd, FlowGoes
<1>7. CASE \E d \in Deliveries : JumpTo(d)
  BY <1>7 DEF JumpTo, FlowGoes, HopTaken
<1>8. CASE \E d \in Deliveries : JumpsEnd(d)
  BY <1>8 DEF JumpsEnd, FlowGoes
<1>9. CASE \E d \in Deliveries : JumpsFail(d)
  BY <1>9 DEF JumpsFail, FlowGoes
<1>10. CASE \E d \in Deliveries : FlowComplete(d)
  <2>1. PICK d \in Deliveries : FlowComplete(d)
    BY <1>10
  <2>2. entry' \in [Scopes -> EntryType]
    BY <2>1, CompletedWrites, WriteFacts DEF FlowComplete
  <2> QED BY <2>1, <2>2 DEF FlowComplete, FlowGoes
<1>11. CASE \E d \in Deliveries : FlowFail(d)
  <2>1. PICK d \in Deliveries : FlowFail(d)
    BY <1>11
  <2>2. entry' \in [Scopes -> EntryType]
    BY <2>1, FailedWrites, WriteFacts DEF FlowFail
  <2> QED BY <2>1, <2>2 DEF FlowFail, FlowGoes
<1>12. CASE \E j \in Jumps : JumpSent(j)
  BY <1>12 DEF JumpSent
<1>13. CASE \E j \in Jumps : JumpRejects(j)
  BY <1>13 DEF JumpRejects, JumpLeaves
<1>14. CASE \E j \in Jumps : JumpReceives(j)
  BY <1>14 DEF JumpReceives, JumpLeaves
<1>15. CASE \E j \in Jumps : JumpTimer(j)
  BY <1>15 DEF JumpTimer
<1>16. CASE \E j \in Jumps : ActBegin(j)
  <2>1. PICK j \in Jumps : ActBegin(j)
    BY <1>16
  <2>2. j[2] \in Targets
    OBVIOUS
  <2>3. entry' \in [Scopes -> EntryType]
    BY <2>1, <2>2, BegunWrites, WriteFacts DEF ActBegin
  <2>4. started' \in [Targets -> Nat]
    <3>1. started \in [Targets -> Nat] /\ (started' = started \/ started' = [started EXCEPT ![j[2]] = @ + 1])
      BY <2>1 DEF ActBegin
    <3> HIDE DEF TypeOK
    <3> QED BY <2>2, <3>1
  <2>5. UNCHANGED <<plan, broker, flow, jump, open, wait, upsets, worked, done>>
    BY <2>1 DEF ActBegin
  <2>6. PICK l \in {"method", "resend"} : act' = [act EXCEPT ![j] = l]
    BY <2>1 DEF ActBegin, ActGoes
  <2> QED BY <2>3, <2>4, <2>5, <2>6
<1>17. CASE \E j \in Jumps : ActResend(j)
  <2>1. PICK j \in Jumps : ActResend(j)
    BY <1>17
  <2>2. j[2] \in Targets
    OBVIOUS
  <2>3. entry' \in [Scopes -> EntryType]
    BY <2>1, <2>2, ResendWrites, WriteFacts
  <2>4. Cached(j) \in Deliveries \cup {Nobody}
    BY <2>2 DEF Cached, EntryType
  <2> HIDE DEF Cached
  <2>5. wait' \in [Jumps -> {Pending, TimedOut, Cancelled} \cup Deliveries]
    BY <2>1, <2>4 DEF ActResend, Replies
  <2>6. \A i \in Jumps : wait[i] = TimedOut => wait'[i] = TimedOut
    BY <2>1 DEF ActResend, Replies
  <2>7. UNCHANGED <<plan, broker, flow, jump, open, upsets, started, worked, done>>
    BY <2>1 DEF ActResend
  <2>8. PICK l \in {"returned", "threw"} : act' = [act EXCEPT ![j] = l]
    BY <2>1 DEF ActResend, Replies, ActGoes
  <2> QED BY <2>3, <2>5, <2>6, <2>7, <2>8
<1>18. CASE \E j \in Jumps : ActComplete(j)
  <2>1. PICK j \in Jumps : ActComplete(j)
    BY <1>18
  <2>2. j[1] \in Deliveries /\ j[2] \in Targets
    OBVIOUS
  <2>3. entry' \in [Scopes -> EntryType]
    BY <2>1, <2>2, CompletedWrites, WriteFacts DEF ActComplete
  <2> QED BY <2>1, <2>2, <2>3 DEF ActComplete, ActGoes
<1>19. CASE \E j \in Jumps : ActReply(j)
  <2>1. PICK j \in Jumps : ActReply(j)
    BY <1>19
  <2>2. j[1] \in Deliveries
    OBVIOUS
  <2>3. wait' \in [Jumps -> {Pending, TimedOut, Cancelled} \cup Deliveries]
    BY <2>1, <2>2 DEF ActReply, Replies
  <2> QED BY <2>1, <2>3 DEF ActReply, Replies, ActGoes
<1>20. CASE \E j \in Jumps : ActFail(j)
  <2>1. PICK j \in Jumps : ActFail(j)
    BY <1>20
  <2>2. j[1] \in Deliveries /\ j[2] \in Targets
    OBVIOUS
  <2>3. entry' \in [Scopes -> EntryType]
    BY <2>1, <2>2, FailedWrites, WriteFacts DEF ActFail
  <2> QED BY <2>1, <2>2, <2>3 DEF ActFail, ActGoes
<1>21. CASE \E j \in Jumps : MethodReturns(j)
  BY <1>21 DEF MethodReturns, ActGoes
<1>22. CASE \E j \in Jumps : MethodThrows(j)
  BY <1>22 DEF MethodThrows, ActGoes
<1>23. CASE \E s \in Scopes : Expire(s)
  <2>1. PICK s \in Scopes : Expire(s)
    BY <1>23
  <2>2. entry' \in [Scopes -> EntryType]
    BY <2>1, ExpireWrites, WriteFacts
  <2>3. upsets' \in 0 .. plan'.upsets
    BY <2>1 DEF Expire
  <2>4. UNCHANGED <<plan, broker, flow, jump, open, wait, act, worked, done>>
    BY <2>1 DEF Expire
  <2>5. started' \in [Targets -> Nat]
    BY <2>1 DEF Expire
  <2> QED BY <2>2, <2>3, <2>4, <2>5
<1>24. CASE Crash
  BY <1>24 DEF Crash, Absent, EntryType
<1>25. CASE Quiet
  BY <1>25 DEF Quiet, vars
<1> QED BY <1>1, <1>2, <1>3, <1>4, <1>5, <1>6, <1>7, <1>8, <1>9, <1>10, <1>11, <1>12, <1>13, <1>14,
      <1>15, <1>16, <1>17, <1>18, <1>19, <1>20, <1>21, <1>22, <1>23, <1>24, <1>25 DEF Next,
      Listener, FlowStep, JumpStep, Activator, Method

-----------------------------------------------------------------------------
(* Every step keeps what the jumps and the activators know. *)

LEMMA JumpsStep ==
  ASSUME TypeOK, EndpointInv, Next, NEW j \in Jumps
  PROVE  JumpKnows(j)'
<1>0. /\ plan \in Plans /\ j[1] \in Deliveries /\ j[2] \in Targets
      /\ \A i \in Jumps : JumpKnows(i) /\ KeyKnows(i[2])
      /\ \A d \in Deliveries : FlowKnown(d)
  BY DEF TypeOK, EndpointInv, Jumps
<1> USE <1>0, PlanFacts, Names DEF TypeOK, process, history, fixed, Jumps
<1>1. CASE \E d \in Deliveries : Receive(d)
  BY <1>1 DEF Receive, JumpKnows, FlowKnown, Awaited
<1>2. CASE \E d \in Deliveries : Poison(d)
  BY <1>2 DEF Poison, JumpKnows, FlowKnown, Awaited
<1>3. CASE \E d \in Deliveries : Ack(d)
  BY <1>3 DEF Ack, JumpKnows, FlowKnown, Awaited
<1>4. CASE \E d \in Deliveries : Nack(d)
  BY <1>4 DEF Nack, JumpKnows, FlowKnown, Awaited
<1>5. CASE \E d \in Deliveries : FlowBegin(d)
  BY <1>5 DEF FlowBegin, Begun, Free, FlowGoes, JumpKnows, FlowKnown, Awaited
<1>6. CASE \E d \in Deliveries : StepsEnd(d)
  BY <1>6 DEF StepsEnd, FlowGoes, JumpKnows, FlowKnown, Awaited
<1>7. CASE \E d \in Deliveries : JumpTo(d)
  <2>1. PICK d \in Deliveries : JumpTo(d)
    BY <1>7
  <2>2. UNCHANGED <<wait, worked, plan>> /\ flow[d] = "steps" /\ flow' = [flow EXCEPT ![d] = "jumping"]
    BY <2>1 DEF JumpTo, FlowGoes
  <2>3. CASE j \in JumpsOf(d)
    <3>1. j[1] = d /\ act'[j] \in {"refused", "begin"} /\ jump'[j] \in {"waiting", "sending"}
      BY <2>1, <2>3 DEF JumpTo, JumpsOf
    <3> QED BY <2>2, <3>1 DEF JumpKnows, Awaited
  <2>4. CASE j \notin JumpsOf(d)
    <3>1. act'[j] = act[j] /\ jump'[j] = jump[j]
      BY <2>1, <2>4 DEF JumpTo
    <3> QED BY <2>2, <3>1 DEF JumpKnows, Awaited
  <2> QED BY <2>3, <2>4
<1>8. CASE \E d \in Deliveries : JumpsEnd(d)
  BY <1>8 DEF JumpsEnd, FlowGoes, JumpKnows, FlowKnown, Awaited
<1>9. CASE \E d \in Deliveries : JumpsFail(d)
  BY <1>9 DEF JumpsFail, FlowGoes, JumpKnows, FlowKnown, Awaited
<1>10. CASE \E d \in Deliveries : FlowComplete(d)
  BY <1>10 DEF FlowComplete, Completed, FlowGoes, JumpKnows, FlowKnown, Awaited
<1>11. CASE \E d \in Deliveries : FlowFail(d)
  BY <1>11 DEF FlowFail, Failed, FlowGoes, JumpKnows, FlowKnown, Awaited
<1>12. CASE \E i \in Jumps : JumpSent(i)
  BY <1>12 DEF JumpSent, JumpKnows, FlowKnown, Awaited
<1>13. CASE \E i \in Jumps : JumpRejects(i)
  BY <1>13 DEF JumpRejects, JumpLeaves, JumpKnows, FlowKnown, Awaited
<1>14. CASE \E i \in Jumps : JumpReceives(i)
  BY <1>14 DEF JumpReceives, JumpLeaves, JumpKnows, FlowKnown, Awaited
<1>15. CASE \E i \in Jumps : JumpTimer(i)
  BY <1>15 DEF JumpTimer, JumpKnows, FlowKnown, Awaited
<1>16. CASE \E i \in Jumps : ActBegin(i)
  BY <1>16 DEF ActBegin, Begun, Free, ActGoes, JumpKnows, FlowKnown, Awaited
<1>17. CASE \E i \in Jumps : ActResend(i)
  <2>1. PICK i \in Jumps : ActResend(i)
    BY <1>17
  <2>2. UNCHANGED <<flow, jump, worked, plan>>
    BY <2>1 DEF ActResend
  <2>3. act'[j] = act[j] \/ act'[j] \in {"returned", "threw"}
    BY <2>1 DEF ActResend, Replies, ActGoes
  <2>4. wait'[j] = wait[j] \/ (wait[j] = Pending /\ j = i /\ wait'[j] = Cached(i) /\ Cached(i) # Nobody)
    BY <2>1 DEF ActResend, Replies
  <2>5. Cached(i) # Nobody => Cached(i) \in worked[i[2]]
    BY DEF Cached, KeyKnows
  <2> QED BY <2>2, <2>3, <2>4, <2>5 DEF JumpKnows, Awaited
<1>18. CASE \E i \in Jumps : ActComplete(i)
  BY <1>18 DEF ActComplete, Completed, ActGoes, JumpKnows, FlowKnown, Awaited
<1>19. CASE \E i \in Jumps : ActReply(i)
  <2>1. PICK i \in Jumps : ActReply(i)
    BY <1>19
  <2>2. UNCHANGED <<flow, jump, worked, plan>> /\ i[1] \in worked[i[2]]
    BY <2>1 DEF ActReply, JumpKnows
  <2>3. act'[j] = act[j] \/ act'[j] \in {"returned", "failing"}
    BY <2>1 DEF ActReply, Replies, ActGoes
  <2>4. wait'[j] = wait[j] \/ (wait[j] = Pending /\ j = i /\ wait'[j] = i[1])
    BY <2>1 DEF ActReply, Replies
  <2> QED BY <2>2, <2>3, <2>4 DEF JumpKnows, Awaited
<1>20. CASE \E i \in Jumps : ActFail(i)
  BY <1>20 DEF ActFail, Failed, ActGoes, JumpKnows, FlowKnown, Awaited
<1>21. CASE \E i \in Jumps : MethodReturns(i)
  BY <1>21 DEF MethodReturns, ActGoes, JumpKnows, FlowKnown, Awaited
<1>22. CASE \E i \in Jumps : MethodThrows(i)
  BY <1>22 DEF MethodThrows, ActGoes, JumpKnows, FlowKnown, Awaited
<1>23. CASE \E s \in Scopes : Expire(s)
  BY <1>23 DEF Expire, Scopes, JumpKnows, FlowKnown, Awaited
<1>24. CASE Crash
  BY <1>24 DEF Crash, Absent, EntryType, JumpKnows, FlowKnown, Awaited
<1>25. CASE Quiet
  BY <1>25 DEF Quiet, vars, JumpKnows, FlowKnown, Awaited
<1> QED BY <1>1, <1>2, <1>3, <1>4, <1>5, <1>6, <1>7, <1>8, <1>9, <1>10, <1>11, <1>12, <1>13, <1>14,
      <1>15, <1>16, <1>17, <1>18, <1>19, <1>20, <1>21, <1>22, <1>23, <1>24, <1>25 DEF Next,
      Listener, FlowStep, JumpStep, Activator, Method

-----------------------------------------------------------------------------
(* ... the keys of the activators ... *)

\* What a step makes of the entry and the count of a target's key.
KeyMoves(t) ==
  \/ entry'[t] = entry[t] /\ started'[t] = started[t]
  \/ ~entry[t].live /\ entry'[t].live /\ entry'[t].result = Nobody /\ started'[t] = started[t] + 1
  \/ ~entry[t].live /\ ~entry'[t].live /\ entry'[t].result = Nobody /\ started'[t] = started[t]
  \/ /\ entry'[t].live = entry[t].live /\ started'[t] = started[t]
     /\ \/ entry'[t].result = entry[t].result
        \/ entry'[t].result = Nobody /\ t \in plan.void
        \/ entry'[t].result \in worked[t] /\ t \notin plan.void
  \/ /\ ~entry'[t].live /\ started'[t] = 0 /\ upsets' # upsets
     /\ entry'[t].result \in {entry[t].result, Nobody}

LEMMA KeysMove ==
  ASSUME TypeOK, EndpointInv, Next, NEW t \in Targets
  PROVE  KeyMoves(t)
<1>0. /\ plan \in Plans /\ t \in Scopes /\ t # Flow /\ Flow \in Scopes /\ KeyKnows(t)
      /\ \A j \in Jumps : JumpKnows(j) /\ j[1] \in Deliveries /\ j[2] \in Targets /\ j[2] \in Scopes
      /\ entry \in [Scopes -> EntryType]
  BY Names DEF TypeOK, EndpointInv, Jumps
<1> USE <1>0, PlanFacts, Names DEF history, fixed, process, KeyMoves
<1>1. CASE \E d \in Deliveries : Receive(d)
  BY <1>1 DEF Receive
<1>2. CASE \E d \in Deliveries : Poison(d)
  BY <1>2 DEF Poison
<1>3. CASE \E d \in Deliveries : Ack(d)
  BY <1>3 DEF Ack
<1>4. CASE \E d \in Deliveries : Nack(d)
  BY <1>4 DEF Nack
<1>5. CASE \E d \in Deliveries : FlowBegin(d)
  <2>1. PICK d \in Deliveries : FlowBegin(d)
    BY <1>5
  <2>2. entry'[t] = entry[t] /\ started' = started
    BY <2>1, BegunWrites, WriteFacts DEF FlowBegin
  <2> QED BY <2>2
<1>6. CASE \E d \in Deliveries : StepsEnd(d)
  BY <1>6 DEF StepsEnd, FlowGoes
<1>7. CASE \E d \in Deliveries : JumpTo(d)
  BY <1>7 DEF JumpTo, FlowGoes, HopTaken
<1>8. CASE \E d \in Deliveries : JumpsEnd(d)
  BY <1>8 DEF JumpsEnd, FlowGoes
<1>9. CASE \E d \in Deliveries : JumpsFail(d)
  BY <1>9 DEF JumpsFail, FlowGoes
<1>10. CASE \E d \in Deliveries : FlowComplete(d)
  <2>1. PICK d \in Deliveries : FlowComplete(d)
    BY <1>10
  <2>2. entry'[t] = entry[t] /\ started' = started
    BY <2>1, CompletedWrites, WriteFacts DEF FlowComplete
  <2> QED BY <2>2
<1>11. CASE \E d \in Deliveries : FlowFail(d)
  <2>1. PICK d \in Deliveries : FlowFail(d)
    BY <1>11
  <2>2. entry'[t] = entry[t] /\ started' = started
    BY <2>1, FailedWrites, WriteFacts DEF FlowFail
  <2> QED BY <2>2
<1>12. CASE \E j \in Jumps : JumpSent(j)
  BY <1>12 DEF JumpSent
<1>13. CASE \E j \in Jumps : JumpRejects(j)
  BY <1>13 DEF JumpRejects, JumpLeaves
<1>14. CASE \E j \in Jumps : JumpReceives(j)
  BY <1>14 DEF JumpReceives, JumpLeaves
<1>15. CASE \E j \in Jumps : JumpTimer(j)
  BY <1>15 DEF JumpTimer
<1>16. CASE \E j \in Jumps : ActBegin(j)
  <2>1. PICK j \in Jumps : ActBegin(j)
    BY <1>16
  <2>2. CASE ~Free(j[2]) \/ j[2] # t
    <3>1. entry'[t] = entry[t] /\ started'[t] = started[t]
      BY <2>1, <2>2, BegunWrites, WriteFacts DEF ActBegin, TypeOK
    <3> QED BY <3>1
  <2>3. CASE Free(j[2]) /\ j[2] = t
    <3>1. PICK e : Writes(t, e) /\ e.live /\ e.result = Nobody
      BY <2>1, <2>3, BegunWrites DEF ActBegin
    <3>2. entry'[t] = e /\ ~entry[t].live
      BY <2>3, <3>1, WriteFacts DEF Free
    <3>3. started'[t] = started[t] + 1
      BY <2>1, <2>3 DEF ActBegin, TypeOK
    <3> QED BY <3>1, <3>2, <3>3
  <2> QED BY <2>2, <2>3
<1>17. CASE \E j \in Jumps : ActResend(j)
  <2>1. PICK j \in Jumps : ActResend(j)
    BY <1>17
  <2>2. \/ entry' = entry
        \/ ~entry[j[2]].live /\ Writes(j[2], Absent) /\ ~Absent.live /\ Absent.result = Nobody
    BY <2>1, ResendWrites
  <2>3. started' = started
    BY <2>1 DEF ActResend
  <2>4. CASE entry' = entry
    BY <2>3, <2>4
  <2>5. CASE entry' # entry
    <3>1. entry'[j[2]] = Absent /\ \A x \in Scopes : x # j[2] => entry'[x] = entry[x]
      BY <2>2, <2>5, WriteFacts
    <3> QED BY <2>2, <2>3, <2>5, <3>1
  <2> QED BY <2>4, <2>5
<1>18. CASE \E j \in Jumps : ActComplete(j)
  <2>1. PICK j \in Jumps : ActComplete(j)
    BY <1>18
  <2> DEFINE result == IF j[2] \in plan.void THEN Nobody ELSE j[1]
  <2>2. Completed(j[2], result) /\ started' = started
    BY <2>1 DEF ActComplete
  <2>3. result \in Deliveries \cup {Nobody}
    OBVIOUS
  <2> HIDE DEF result
  <2>4. PICK e : Writes(j[2], e) /\ e.live = entry[j[2]].live /\ e.result \in {entry[j[2]].result, result}
    BY <2>2, <2>3, CompletedWrites
  <2>5. entry'[j[2]] = e /\ \A x \in Scopes : x # j[2] => entry'[x] = entry[x]
    BY <2>4, WriteFacts
  <2>6. j[1] \in worked[j[2]]
    BY <2>1 DEF ActComplete, JumpKnows
  <2> QED BY <2>2, <2>4, <2>5, <2>6 DEF result
<1>19. CASE \E j \in Jumps : ActReply(j)
  BY <1>19 DEF ActReply, Replies, ActGoes
<1>20. CASE \E j \in Jumps : ActFail(j)
  <2>1. PICK j \in Jumps : ActFail(j)
    BY <1>20
  <2>2. PICK e : Writes(j[2], e) /\ e.live = entry[j[2]].live /\ e.result = entry[j[2]].result
    BY <2>1, FailedWrites DEF ActFail
  <2>3. entry'[j[2]] = e /\ \A x \in Scopes : x # j[2] => entry'[x] = entry[x]
    BY <2>2, WriteFacts
  <2>4. started' = started
    BY <2>1 DEF ActFail
  <2> QED BY <2>2, <2>3, <2>4
<1>21. CASE \E j \in Jumps : MethodReturns(j)
  BY <1>21 DEF MethodReturns, ActGoes
<1>22. CASE \E j \in Jumps : MethodThrows(j)
  BY <1>22 DEF MethodThrows, ActGoes
<1>23. CASE \E s \in Scopes : Expire(s)
  <2>1. PICK s \in Scopes : Expire(s)
    BY <1>23
  <2>2. PICK e : Writes(s, e) /\ ~e.live /\ e.result = entry[s].result
    BY <2>1, ExpireWrites
  <2>3. entry'[s] = e /\ \A x \in Scopes : x # s => entry'[x] = entry[x]
    BY <2>2, WriteFacts
  <2>4. upsets' # upsets /\ started'[t] = IF t = s THEN 0 ELSE started[t]
    BY <2>1 DEF Expire, TypeOK
  <2> QED BY <2>2, <2>3, <2>4
<1>24. CASE Crash
  <2>1. upsets' # upsets /\ started'[t] = 0 /\ entry'[t] = Absent
    BY <1>24 DEF Crash, TypeOK
  <2>2. ~Absent.live /\ Absent.result = Nobody
    BY DEF Absent
  <2> QED BY <2>1, <2>2
<1>25. CASE Quiet
  BY <1>25 DEF Quiet, vars
<1> QED BY <1>1, <1>2, <1>3, <1>4, <1>5, <1>6, <1>7, <1>8, <1>9, <1>10, <1>11, <1>12, <1>13, <1>14,
      <1>15, <1>16, <1>17, <1>18, <1>19, <1>20, <1>21, <1>22, <1>23, <1>24, <1>25 DEF Next,
      Listener, FlowStep, JumpStep, Activator, Method

LEMMA WorkStays ==
  ASSUME TypeOK, Next, NEW t \in Targets
  PROVE  /\ plan' = plan
         /\ worked[t] \subseteq worked'[t] \/ entry'[t].result = Nobody
<1> USE Names DEF TypeOK, history, fixed, process, Jumps
<1>1. CASE \E d \in Deliveries : Receive(d)
  BY <1>1 DEF Receive
<1>2. CASE \E d \in Deliveries : Poison(d)
  BY <1>2 DEF Poison
<1>3. CASE \E d \in Deliveries : Ack(d)
  BY <1>3 DEF Ack
<1>4. CASE \E d \in Deliveries : Nack(d)
  BY <1>4 DEF Nack
<1>5. CASE \E d \in Deliveries : FlowBegin(d)
  BY <1>5 DEF FlowBegin, Begun, Free, FlowGoes
<1>6. CASE \E d \in Deliveries : StepsEnd(d)
  BY <1>6 DEF StepsEnd, FlowGoes
<1>7. CASE \E d \in Deliveries : JumpTo(d)
  BY <1>7 DEF JumpTo, FlowGoes, HopTaken
<1>8. CASE \E d \in Deliveries : JumpsEnd(d)
  BY <1>8 DEF JumpsEnd, FlowGoes
<1>9. CASE \E d \in Deliveries : JumpsFail(d)
  BY <1>9 DEF JumpsFail, FlowGoes
<1>10. CASE \E d \in Deliveries : FlowComplete(d)
  BY <1>10 DEF FlowComplete, Completed, FlowGoes
<1>11. CASE \E d \in Deliveries : FlowFail(d)
  BY <1>11 DEF FlowFail, Failed, FlowGoes
<1>12. CASE \E j \in Jumps : JumpSent(j)
  BY <1>12 DEF JumpSent
<1>13. CASE \E j \in Jumps : JumpRejects(j)
  BY <1>13 DEF JumpRejects, JumpLeaves
<1>14. CASE \E j \in Jumps : JumpReceives(j)
  BY <1>14 DEF JumpReceives, JumpLeaves
<1>15. CASE \E j \in Jumps : JumpTimer(j)
  BY <1>15 DEF JumpTimer
<1>16. CASE \E j \in Jumps : ActBegin(j)
  BY <1>16 DEF ActBegin, Begun, Free, ActGoes
<1>17. CASE \E j \in Jumps : ActResend(j)
  BY <1>17 DEF ActResend, Replies, Cached, ActGoes
<1>18. CASE \E j \in Jumps : ActComplete(j)
  BY <1>18 DEF ActComplete, Completed, ActGoes
<1>19. CASE \E j \in Jumps : ActReply(j)
  BY <1>19 DEF ActReply, Replies, ActGoes
<1>20. CASE \E j \in Jumps : ActFail(j)
  BY <1>20 DEF ActFail, Failed, ActGoes
<1>21. CASE \E j \in Jumps : MethodReturns(j)
  BY <1>21 DEF MethodReturns, ActGoes
<1>22. CASE \E j \in Jumps : MethodThrows(j)
  BY <1>22 DEF MethodThrows, ActGoes
<1>23. CASE \E s \in Scopes : Expire(s)
  BY <1>23 DEF Expire, Scopes
<1>24. CASE Crash
  BY <1>24 DEF Crash, Absent, EntryType
<1>25. CASE Quiet
  BY <1>25 DEF Quiet, vars
<1> QED BY <1>1, <1>2, <1>3, <1>4, <1>5, <1>6, <1>7, <1>8, <1>9, <1>10, <1>11, <1>12, <1>13, <1>14,
      <1>15, <1>16, <1>17, <1>18, <1>19, <1>20, <1>21, <1>22, <1>23, <1>24, <1>25 DEF Next,
      Listener, FlowStep, JumpStep, Activator, Method

LEMMA KeysStep ==
  ASSUME TypeOK, EndpointInv, Next, NEW t \in Targets
  PROVE  KeyKnows(t)'
<1>1. KeyKnows(t) /\ KeyMoves(t) /\ plan' = plan
  BY KeysMove, WorkStays DEF EndpointInv
<1>2. worked[t] \subseteq worked'[t] \/ entry'[t].result = Nobody
  BY WorkStays
<1> QED BY <1>1, <1>2 DEF KeyKnows, KeyMoves

-----------------------------------------------------------------------------
(* ... the flows and the key of the flow ... *)

LEMMA FlowsStep ==
  ASSUME TypeOK, EndpointInv, Next, NEW d \in Deliveries
  PROVE  FlowKnown(d)'
<1>0. FlowKnown(d)
  BY DEF EndpointInv
<1> USE <1>0 DEF TypeOK, process, history, fixed, FlowKnown
<1>1. CASE \E e \in Deliveries : Receive(e)
  BY <1>1 DEF Receive, FlowKnown
<1>2. CASE \E e \in Deliveries : Poison(e)
  BY <1>2 DEF Poison, FlowKnown
<1>3. CASE \E e \in Deliveries : Ack(e)
  BY <1>3 DEF Ack, FlowKnown
<1>4. CASE \E e \in Deliveries : Nack(e)
  BY <1>4 DEF Nack, FlowKnown
<1>5. CASE \E e \in Deliveries : FlowBegin(e)
  BY <1>5 DEF FlowBegin, Begun, Free, FlowGoes, FlowKnown
<1>6. CASE \E e \in Deliveries : StepsEnd(e)
  BY <1>6 DEF StepsEnd, FlowGoes, FlowKnown
<1>7. CASE \E e \in Deliveries : JumpTo(e)
  BY <1>7 DEF JumpTo, FlowGoes, HopTaken, FlowKnown
<1>8. CASE \E e \in Deliveries : JumpsEnd(e)
  BY <1>8 DEF JumpsEnd, FlowGoes, FlowKnown
<1>9. CASE \E e \in Deliveries : JumpsFail(e)
  BY <1>9 DEF JumpsFail, FlowGoes, FlowKnown
<1>10. CASE \E e \in Deliveries : FlowComplete(e)
  BY <1>10 DEF FlowComplete, Completed, FlowGoes, FlowKnown
<1>11. CASE \E e \in Deliveries : FlowFail(e)
  BY <1>11 DEF FlowFail, Failed, FlowGoes, FlowKnown
<1>12. CASE \E j \in Jumps : JumpSent(j)
  BY <1>12 DEF JumpSent, FlowKnown
<1>13. CASE \E j \in Jumps : JumpRejects(j)
  BY <1>13 DEF JumpRejects, JumpLeaves, FlowKnown
<1>14. CASE \E j \in Jumps : JumpReceives(j)
  BY <1>14 DEF JumpReceives, JumpLeaves, FlowKnown
<1>15. CASE \E j \in Jumps : JumpTimer(j)
  BY <1>15 DEF JumpTimer, FlowKnown
<1>16. CASE \E j \in Jumps : ActBegin(j)
  BY <1>16 DEF ActBegin, Begun, Free, ActGoes, FlowKnown
<1>17. CASE \E j \in Jumps : ActResend(j)
  BY <1>17 DEF ActResend, Replies, Cached, ActGoes, FlowKnown
<1>18. CASE \E j \in Jumps : ActComplete(j)
  BY <1>18 DEF ActComplete, Completed, ActGoes, FlowKnown
<1>19. CASE \E j \in Jumps : ActReply(j)
  BY <1>19 DEF ActReply, Replies, ActGoes, FlowKnown
<1>20. CASE \E j \in Jumps : ActFail(j)
  BY <1>20 DEF ActFail, Failed, ActGoes, FlowKnown
<1>21. CASE \E j \in Jumps : MethodReturns(j)
  BY <1>21 DEF MethodReturns, ActGoes, FlowKnown
<1>22. CASE \E j \in Jumps : MethodThrows(j)
  BY <1>22 DEF MethodThrows, ActGoes, FlowKnown
<1>23. CASE \E s \in Scopes : Expire(s)
  BY <1>23 DEF Expire, Scopes, FlowKnown
<1>24. CASE Crash
  BY <1>24 DEF Crash, Absent, EntryType, FlowKnown
<1>25. CASE Quiet
  BY <1>25 DEF Quiet, vars, FlowKnown
<1> QED BY <1>1, <1>2, <1>3, <1>4, <1>5, <1>6, <1>7, <1>8, <1>9, <1>10, <1>11, <1>12, <1>13, <1>14,
      <1>15, <1>16, <1>17, <1>18, <1>19, <1>20, <1>21, <1>22, <1>23, <1>24, <1>25 DEF Next,
      Listener, FlowStep, JumpStep, Activator, Method

LEMMA OwnerStep ==
  ASSUME TypeOK, EndpointInv, Next
  PROVE  ClaimHasOwner'
<1> SUFFICES ASSUME entry'[Flow].live PROVE \E d \in Deliveries : flow'[d] \in Owning
  BY DEF ClaimHasOwner
<1>0. /\ entry \in [Scopes -> EntryType]
      /\ entry[Flow].live => \E d \in Deliveries : flow[d] \in Owning
  BY DEF TypeOK, EndpointInv, ClaimHasOwner
<1> USE <1>0, Names DEF TypeOK, process, history, fixed, Owning, Jumps
<1>1. CASE \E d \in Deliveries : Receive(d)
  <2>1. PICK d \in Deliveries : Receive(d)
    BY <1>1
  <2>2. flow[d] = "none"
    BY <2>1 DEF Receive, EndpointInv, FlowKnown
  <2>3. entry' = entry /\ flow' = [flow EXCEPT ![d] = "begin"]
    BY <2>1 DEF Receive
  <2> QED BY <2>2, <2>3
<1>2. CASE \E d \in Deliveries : Poison(d)
  BY <1>2 DEF Poison
<1>3. CASE \E d \in Deliveries : Ack(d)
  BY <1>3 DEF Ack
<1>4. CASE \E d \in Deliveries : Nack(d)
  BY <1>4 DEF Nack
<1>5. CASE \E d \in Deliveries : FlowBegin(d)
  <2>1. PICK d \in Deliveries : FlowBegin(d)
    BY <1>5
  <2>2. CASE Free(Flow)
    <3>1. flow'[d] = "steps"
      BY <2>1, <2>2 DEF FlowBegin, FlowGoes
    <3> QED BY <3>1
  <2>3. CASE ~Free(Flow)
    <3>1. entry' = entry /\ flow' = [flow EXCEPT ![d] = "duplicate"] /\ flow[d] = "begin"
      BY <2>1, <2>3 DEF FlowBegin, FlowGoes
    <3> QED BY <3>1
  <2> QED BY <2>2, <2>3
<1>6. CASE \E d \in Deliveries : StepsEnd(d)
  BY <1>6 DEF StepsEnd, FlowGoes
<1>7. CASE \E d \in Deliveries : JumpTo(d)
  BY <1>7 DEF JumpTo, FlowGoes, HopTaken
<1>8. CASE \E d \in Deliveries : JumpsEnd(d)
  BY <1>8 DEF JumpsEnd, FlowGoes
<1>9. CASE \E d \in Deliveries : JumpsFail(d)
  BY <1>9 DEF JumpsFail, FlowGoes
<1>10. CASE \E d \in Deliveries : FlowComplete(d)
  <2>1. PICK d \in Deliveries : FlowComplete(d)
    BY <1>10
  <2>2. flow[d] \in Owning /\ flow'[d] \in Owning
    BY <2>1 DEF FlowComplete, FlowGoes, Owning
  <2> QED BY <2>2
<1>11. CASE \E d \in Deliveries : FlowFail(d)
  <2>1. PICK d \in Deliveries : FlowFail(d)
    BY <1>11
  <2>2. flow[d] \in Owning /\ flow'[d] \in Owning
    BY <2>1 DEF FlowFail, FlowGoes, Owning
  <2> QED BY <2>2
<1>12. CASE \E j \in Jumps : JumpSent(j)
  BY <1>12 DEF JumpSent
<1>13. CASE \E j \in Jumps : JumpRejects(j)
  BY <1>13 DEF JumpRejects, JumpLeaves
<1>14. CASE \E j \in Jumps : JumpReceives(j)
  BY <1>14 DEF JumpReceives, JumpLeaves
<1>15. CASE \E j \in Jumps : JumpTimer(j)
  BY <1>15 DEF JumpTimer
<1>16. CASE \E j \in Jumps : ActBegin(j)
  <2>1. PICK j \in Jumps : ActBegin(j)
    BY <1>16
  <2>2. j[1] \in Deliveries /\ j[2] \in Targets /\ j[2] # Flow
    BY Names
  <2>3. entry'[Flow] = entry[Flow]
    BY <2>1, <2>2, BegunWrites, WriteFacts DEF ActBegin
  <2>4. flow' = flow
    BY <2>1 DEF ActBegin
  <2> QED BY <2>3, <2>4
<1>17. CASE \E j \in Jumps : ActResend(j)
  <2>1. PICK j \in Jumps : ActResend(j)
    BY <1>17
  <2>2. j[2] \in Scopes /\ j[2] # Flow
    BY Names
  <2>3. \/ entry' = entry
        \/ Writes(j[2], Absent)
    BY <2>1, <2>2, ResendWrites
  <2>4. entry'[Flow] = entry[Flow]
    BY <2>2, <2>3, WriteFacts
  <2>5. flow' = flow
    BY <2>1 DEF ActResend
  <2> QED BY <2>4, <2>5
<1>18. CASE \E j \in Jumps : ActComplete(j)
  <2>1. PICK j \in Jumps : ActComplete(j)
    BY <1>18
  <2>2. j[1] \in Deliveries /\ j[2] \in Targets /\ j[2] # Flow
    BY Names
  <2>3. entry'[Flow] = entry[Flow]
    BY <2>1, <2>2, CompletedWrites, WriteFacts DEF ActComplete
  <2>4. flow' = flow
    BY <2>1 DEF ActComplete
  <2> QED BY <2>3, <2>4
<1>19. CASE \E j \in Jumps : ActReply(j)
  BY <1>19 DEF ActReply, Replies, ActGoes
<1>20. CASE \E j \in Jumps : ActFail(j)
  <2>1. PICK j \in Jumps : ActFail(j)
    BY <1>20
  <2>2. j[1] \in Deliveries /\ j[2] \in Targets /\ j[2] # Flow
    BY Names
  <2>3. entry'[Flow] = entry[Flow]
    BY <2>1, <2>2, FailedWrites, WriteFacts DEF ActFail
  <2>4. flow' = flow
    BY <2>1 DEF ActFail
  <2> QED BY <2>3, <2>4
<1>21. CASE \E j \in Jumps : MethodReturns(j)
  BY <1>21 DEF MethodReturns, ActGoes
<1>22. CASE \E j \in Jumps : MethodThrows(j)
  BY <1>22 DEF MethodThrows, ActGoes
<1>23. CASE \E s \in Scopes : Expire(s)
  <2>1. PICK s \in Scopes : Expire(s)
    BY <1>23
  <2>2. PICK e : Writes(s, e) /\ ~e.live
    BY <2>1, ExpireWrites
  <2>3. entry'[s] = e /\ (s # Flow => entry'[Flow] = entry[Flow])
    BY <2>2, WriteFacts
  <2>4. flow' = flow
    BY <2>1 DEF Expire
  <2> QED BY <2>2, <2>3, <2>4
<1>24. CASE Crash
  <2>1. ~entry'[Flow].live
    BY <1>24 DEF Crash, Absent
  <2> QED BY <2>1
<1>25. CASE Quiet
  BY <1>25 DEF Quiet, vars
<1> QED BY <1>1, <1>2, <1>3, <1>4, <1>5, <1>6, <1>7, <1>8, <1>9, <1>10, <1>11, <1>12, <1>13, <1>14,
      <1>15, <1>16, <1>17, <1>18, <1>19, <1>20, <1>21, <1>22, <1>23, <1>24, <1>25 DEF Next,
      Listener, FlowStep, JumpStep, Activator, Method

\* Nobody is acknowledged, or left as a duplicate, without somebody else to answer for the key.
LEMMA CoveredStep ==
  ASSUME TypeOK, EndpointInv, Next
  PROVE  Covered'
<1>0. Covered /\ \A d \in Deliveries : FlowKnown(d)
  BY DEF EndpointInv
<1> USE <1>0 DEF TypeOK, process, history, fixed, Covered, FlowKnown
<1>1. CASE \E d \in Deliveries : Receive(d)
  BY <1>1 DEF Receive
<1>2. CASE \E d \in Deliveries : Poison(d)
  BY <1>2 DEF Poison
<1>3. CASE \E d \in Deliveries : Ack(d)
  BY <1>3 DEF Ack
<1>4. CASE \E d \in Deliveries : Nack(d)
  BY <1>4 DEF Nack
<1>5. CASE \E d \in Deliveries : FlowBegin(d)
  <2>1. PICK d \in Deliveries : FlowBegin(d)
    BY <1>5
  <2>2. flow[d] = "begin" /\ broker' = broker /\ done' = done
    BY <2>1 DEF FlowBegin
  <2>3. CASE Free(Flow)
    <3>1. flow' = [flow EXCEPT ![d] = "steps"]
      BY <2>1, <2>3 DEF FlowBegin, FlowGoes
    <3> QED BY <2>2, <3>1
  <2>4. CASE ~Free(Flow)
    <3>1. flow' = [flow EXCEPT ![d] = "duplicate"]
      BY <2>1, <2>4 DEF FlowBegin, FlowGoes
    <3>2. PICK c \in Deliveries : flow[c] \in Owning
      BY <2>4 DEF Free, EndpointInv, ClaimHasOwner
    <3>3. c # d /\ flow'[c] \in Owning /\ FlowKnown(c)
      BY <2>2, <3>1, <3>2 DEF Owning, EndpointInv
    <3>4. done # {} \/ broker[c] # "acked"
      BY <3>2, <3>3 DEF FlowKnown, Owning
    <3> QED BY <2>2, <3>3, <3>4 DEF Owning
  <2> QED BY <2>3, <2>4
<1>6. CASE \E d \in Deliveries : StepsEnd(d)
  BY <1>6 DEF StepsEnd, FlowGoes
<1>7. CASE \E d \in Deliveries : JumpTo(d)
  BY <1>7 DEF JumpTo, FlowGoes, HopTaken
<1>8. CASE \E d \in Deliveries : JumpsEnd(d)
  BY <1>8 DEF JumpsEnd, FlowGoes
<1>9. CASE \E d \in Deliveries : JumpsFail(d)
  BY <1>9 DEF JumpsFail, FlowGoes
<1>10. CASE \E d \in Deliveries : FlowComplete(d)
  BY <1>10 DEF FlowComplete, Completed, FlowGoes
<1>11. CASE \E d \in Deliveries : FlowFail(d)
  BY <1>11 DEF FlowFail, Failed, FlowGoes
<1>12. CASE \E j \in Jumps : JumpSent(j)
  BY <1>12 DEF JumpSent
<1>13. CASE \E j \in Jumps : JumpRejects(j)
  BY <1>13 DEF JumpRejects, JumpLeaves
<1>14. CASE \E j \in Jumps : JumpReceives(j)
  BY <1>14 DEF JumpReceives, JumpLeaves
<1>15. CASE \E j \in Jumps : JumpTimer(j)
  BY <1>15 DEF JumpTimer
<1>16. CASE \E j \in Jumps : ActBegin(j)
  BY <1>16 DEF ActBegin, Begun, Free, ActGoes
<1>17. CASE \E j \in Jumps : ActResend(j)
  BY <1>17 DEF ActResend, Replies, Cached, ActGoes
<1>18. CASE \E j \in Jumps : ActComplete(j)
  BY <1>18 DEF ActComplete, Completed, ActGoes
<1>19. CASE \E j \in Jumps : ActReply(j)
  BY <1>19 DEF ActReply, Replies, ActGoes
<1>20. CASE \E j \in Jumps : ActFail(j)
  BY <1>20 DEF ActFail, Failed, ActGoes
<1>21. CASE \E j \in Jumps : MethodReturns(j)
  BY <1>21 DEF MethodReturns, ActGoes
<1>22. CASE \E j \in Jumps : MethodThrows(j)
  BY <1>22 DEF MethodThrows, ActGoes
<1>23. CASE \E s \in Scopes : Expire(s)
  BY <1>23 DEF Expire, Scopes
<1>24. CASE Crash
  BY <1>24 DEF Crash, Absent, EntryType
<1>25. CASE Quiet
  BY <1>25 DEF Quiet, vars
<1> QED BY <1>1, <1>2, <1>3, <1>4, <1>5, <1>6, <1>7, <1>8, <1>9, <1>10, <1>11, <1>12, <1>13, <1>14,
      <1>15, <1>16, <1>17, <1>18, <1>19, <1>20, <1>21, <1>22, <1>23, <1>24, <1>25 DEF Next,
      Listener, FlowStep, JumpStep, Activator, Method

LEMMA EndpointInvariant == Spec => [](TypeOK /\ EndpointInv)
<1>1. ASSUME TypeOK, EndpointInv, Next PROVE TypeOK' /\ EndpointInv'
  <2>1. TypeOK'
    BY <1>1, TypeStep
  <2>2. \A j \in Jumps : JumpKnows(j)'
    BY <1>1, JumpsStep
  <2>3. \A t \in Targets : KeyKnows(t)'
    BY <1>1, KeysStep
  <2>4. \A d \in Deliveries : FlowKnown(d)'
    BY <1>1, FlowsStep
  <2>5. ClaimHasOwner' /\ Covered'
    BY <1>1, OwnerStep, CoveredStep
  <2> QED BY <2>1, <2>2, <2>3, <2>4, <2>5 DEF EndpointInv
<1>2. ASSUME TypeOK, EndpointInv, UNCHANGED vars PROVE TypeOK' /\ EndpointInv'
  BY <1>2 DEF vars, TypeOK, EndpointInv, JumpKnows, KeyKnows, FlowKnown, ClaimHasOwner, Covered, Awaited
<1>3. TypeOK /\ EndpointInv /\ [Next]_vars => (TypeOK /\ EndpointInv)'
  BY <1>1, <1>2
<1> QED BY InitEndpoint, <1>3, PTL DEF Spec

-----------------------------------------------------------------------------
(* What follows. *)

\* Every variable keeps its type and a reply channel is open exactly while its jump runs, for any
\* deliveries, targets and jumps, and any number of expired keys and crashes.
THEOREM EndpointTypeCorrect == Spec => []TypeOK
  BY EndpointInvariant, PTL

\* Whatever the broker has forgotten of a key, its work is done or a delivery of it is left to answer
\* for it (InboundExplorer's ack and nack, FlowExecutor's duplicates, crashes and expired keys).
THEOREM NobodyIsForgotten == Spec => []AcknowledgedWorkHasAnOwner
<1>1. TypeOK /\ EndpointInv => AcknowledgedWorkHasAnOwner
  BY DEF EndpointInv, Covered, AcknowledgedWorkHasAnOwner
<1> QED BY <1>1, EndpointInvariant, PTL

\* A flow goes on after its jump only with the reply of every awaited target, and a reply is the
\* result of a method that finished (runJump, invokeActivator, resendCachedResult).
THEOREM RepliesAreGenuine == Spec => []FlowsGoOnWithReplies
<1>1. TypeOK /\ EndpointInv => FlowsGoOnWithReplies
  <2> SUFFICES ASSUME TypeOK, EndpointInv, NEW d \in Deliveries, flow[d] \in {"completing", "ok"},
                      NEW t \in Awaited
               PROVE  \/ jump[<<d, t>>] = "none"
                      \/ jump[<<d, t>>] = "replied" /\ wait[<<d, t>>] \in worked[t]
    BY DEF FlowsGoOnWithReplies
  <2>1. t \in Targets
    BY PlanFacts DEF TypeOK
  <2> DEFINE j == <<d, t>>
  <2>2. j \in Jumps /\ j[1] = d /\ j[2] = t
    BY <2>1 DEF Jumps
  <2> HIDE DEF j
  <2>3. jump[j] \in {"none", "replied"} /\ (jump[j] = "replied" => wait[j] \in worked[t])
    BY <2>2 DEF EndpointInv, JumpKnows
  <2> QED BY <2>3 DEF j
<1> QED BY <1>1, EndpointInvariant, PTL

\* While a key lives, its method is started at most once, and a result once kept answers the repeats
\* until the key expires or the process dies (ActBegin, complete, fail, get).
THEOREM MethodsRunOncePerClaim == Spec => OneRunPerClaim
<1> DEFINE Once == \A t \in Targets :
             /\ started'[t] \in 0 .. 1
             /\ entry[t].live /\ entry[t].result # Nobody /\ upsets' = upsets => entry'[t].result # Nobody
<1>1. ASSUME TypeOK, EndpointInv, (TypeOK /\ EndpointInv)', Next PROVE Once
  <2> SUFFICES ASSUME NEW t \in Targets
               PROVE  /\ started'[t] \in 0 .. 1
                      /\ entry[t].live /\ entry[t].result # Nobody /\ upsets' = upsets =>
                           entry'[t].result # Nobody
    OBVIOUS
  <2>1. KeyKnows(t) /\ KeyKnows(t)' /\ KeyMoves(t)
    BY <1>1, KeysMove DEF EndpointInv
  <2>2. Nobody \notin worked[t]
    BY <1>1, Names DEF TypeOK
  <2> QED BY <2>1, <2>2 DEF KeyKnows, KeyMoves
<1>2. TypeOK /\ EndpointInv /\ (TypeOK /\ EndpointInv)' /\ [Next]_vars => [Once]_vars
  BY <1>1
<1> QED BY <1>2, EndpointInvariant, PTL DEF Spec, OneRunPerClaim
=============================================================================
